---- MODULE Spec2Model ----
(***************************************************************************)
(* A model of the Stargate ETH bridging utility (syrupfund/stargate).      *)
(*                                                                         *)
(*   SpecClient  the Chain Client's methods (core/client.py), each applied *)
(*               to every input and node behaviour of a bounded set;       *)
(*   Spec        one Stargate.bridge attempt after another                 *)
(*               (core/stargate.py), step by step, with the ledger         *)
(*               (core/database.py);                                       *)
(*   SpecAuto    the auto-bridge scheduler and the wallet loop             *)
(*               (modules/auto_bridger.py, modules/bridger.py).            *)
(*                                                                         *)
(* A call's outcome is a record: [kind |-> "return", value |-> v] or       *)
(* [kind |-> "raise", error |-> e].  What the network does (a node         *)
(* response, a receipt, a failure) is an input, drawn with \E.             *)
(***************************************************************************)
EXTENDS Integers, Sequences, FiniteSets, TLC

VARIABLES
    call,         \* SpecClient: the last Client call, [op, in, out]
    \* Spec: Stargate.bridge and the ledger
    pc,           \* where the current bridge call stands
    calls,        \* bridge calls made so far
    amount,       \* bridge's amount, in wei (Nothing = None, the full balance)
    include_fees, \* bridge's include_fees
    tx_hash,      \* bridge's tx_hash
    success,      \* bridge's success
    receipt,      \* how the fetch of the receipt for the actual gas went
    exc,          \* str(e) of the exception the outer handler caught
    done,         \* the steps of this call that have completed
    sent,         \* send_raw_transaction calls of this call
    polls,        \* wait_for_transaction_receipt calls of this call
    appends,      \* db.add_transaction calls of this call
    retval,       \* what the call returned, once pc = "returned"
    saved,        \* what the last db.add_transaction returned (bridge drops it)
    db,           \* Database.data, the in-memory store
    file,         \* the ledger file
    \* SpecAuto: auto_bridge and bridge_eth
    auPc,         \* where the auto_bridge call stands
    args,         \* the arguments auto_bridge was called with
    count,        \* auto_bridge's count, once the default is applied
    delay_min,    \* auto_bridge's delay_min, once the default is applied
    delay_max,    \* auto_bridge's delay_max, once the default is applied
    bridge_pairs, \* auto_bridge's bridge_pairs, once the default is applied
    it,           \* auto_bridge's loop index i
    success_count,\* auto_bridge's success_count
    src_chain,    \* the pair of this iteration
    dst_chain,
    keys_txt,     \* data/private_keys.txt
    idx,          \* bridge_eth's wallet index
    wallet_successes, \* bridge_eth's success_count
    iterations,   \* bridge_eth calls auto_bridge has made
    sleeps,       \* sleep_pause calls auto_bridge has made
    delay,        \* the duration of the last of them
    auExc,        \* str(e) of the exception that left auto_bridge
    auResult,     \* what auto_bridge returned, once auPc = "returned"
    ops           \* SpecWallets: what a bridge_eth call has done so far, in order

clientVars == <<call>>
\* The variables a bridge call leaves alone.
autoVars == <<auPc, args, count, delay_min, delay_max, bridge_pairs, it, success_count,
              src_chain, dst_chain, keys_txt, idx, wallet_successes, iterations,
              sleeps, delay, auExc, auResult, ops>>
outside == <<call, autoVars>>
bridgeVars == <<pc, calls, amount, include_fees, tx_hash, success, receipt, exc,
                done, sent, polls, appends, retval, saved, db, file>>
vars == <<call, pc, calls, amount, include_fees, tx_hash, success, receipt, exc,
          done, sent, polls, appends, retval, saved, db, file,
          auPc, args, count, delay_min, delay_max, bridge_pairs, it, success_count,
          src_chain, dst_chain, keys_txt, idx, wallet_successes, iterations,
          sleeps, delay, auExc, auResult, ops>>

\* Python's None, where the other values are strings.
NONE == "None"

\* An Optional number: <<>> for None, <<n>> for n.
Nothing == <<>>
Some(n) == <<n>>

Return(v) == [kind |-> "return", value |-> v]
Raise(e) == [kind |-> "raise", error |-> e]

(***************************************************************************)
(* core/client.py : Client.get_gas_estimate                                *)
(***************************************************************************)

\* for _ in range(3)
GAS_RETRIES == 3

\* Largest gas value the modelled node answers with.
MaxGas == 2

\* str(e) of a chain-reorg error, and of any other error (a node error, a
\* connection error, a signing error).
ErrReorg == "Block with id: 0x1 not found"
ErrOther == "execution reverted"
NodeErrors == {ErrReorg, ErrOther}

\* 'Block with id:' in str(e)
IsReorg(e) == e = ErrReorg

\* What w3.eth.estimate_gas does on one call: a gas value or an error.
GasResponses ==
    [ok : {TRUE}, gas : 1..MaxGas] \cup [ok : {FALSE}, error : NodeErrors]

\* The node's answers to the successive estimate_gas calls of one
\* get_gas_estimate: the loop makes at most GAS_RETRIES calls, then one more.
GasScripts == [1..(GAS_RETRIES + 1) -> GasResponses]

\* The scripts that differ in what get_gas_estimate can see: the answers after
\* the first one that is not a reorg error are never asked for, and are fixed.
GasScriptsSeen ==
    {node \in GasScripts :
        \A i \in 2..(GAS_RETRIES + 1) :
            (\E j \in 1..(i - 1) : node[j].ok \/ ~IsReorg(node[j].error))
                => node[i] = [ok |-> FALSE, error |-> ErrOther]}

\* No retry: the first answer is the result, whatever its class.
estimate_no_retry(node, i) ==
    IF node[1].ok
    THEN [kind |-> "return", value |-> node[1].gas, calls |-> 1, sleeps |-> 0]
    ELSE [kind |-> "raise", error |-> node[1].error, calls |-> 1, sleeps |-> 0]

\* Every error is retried in the loop, whatever its class.
RECURSIVE estimate_retry_all(_, _)
estimate_retry_all(node, i) ==
    LET r == node[i + 1] IN
    IF r.ok
    THEN [kind |-> "return", value |-> r.gas, calls |-> i + 1, sleeps |-> i]
    ELSE IF i < GAS_RETRIES
         THEN estimate_retry_all(node, i + 1)
         ELSE [kind |-> "raise", error |-> r.error, calls |-> i + 1, sleeps |-> i]

\* No final call: the error of the last attempt of the loop is raised.
RECURSIVE estimate_no_final(_, _)
estimate_no_final(node, i) ==
    LET r == node[i + 1] IN
    IF r.ok
    THEN [kind |-> "return", value |-> r.gas, calls |-> i + 1, sleeps |-> i]
    ELSE IF IsReorg(r.error) /\ i + 1 < GAS_RETRIES
         THEN estimate_no_final(node, i + 1)
         ELSE [kind |-> "raise", error |-> r.error, calls |-> i + 1,
               sleeps |-> IF IsReorg(r.error) THEN i + 1 ELSE i]

\* Iteration i (from 0) of the loop, then the final call.  calls and sleeps
\* count the estimate_gas calls made and the asyncio.sleep(1) pauses taken.
RECURSIVE estimate_loop(_, _)
estimate_loop(node, i) ==
    LET r == node[i + 1] IN
    IF i < GAS_RETRIES
    THEN IF r.ok
         THEN [kind |-> "return", value |-> r.gas, calls |-> i + 1, sleeps |-> i]
         ELSE IF IsReorg(r.error)
              THEN estimate_loop(node, i + 1)
              ELSE [kind |-> "raise", error |-> r.error, calls |-> i + 1, sleeps |-> i]
    ELSE IF r.ok
         THEN [kind |-> "return", value |-> r.gas, calls |-> i + 1, sleeps |-> i]
         ELSE [kind |-> "raise", error |-> r.error, calls |-> i + 1, sleeps |-> i]

get_gas_estimate(node) == estimate_loop(node, 0)

(***************************************************************************)
(* core/client.py : Client.verify_tx                                       *)
(***************************************************************************)

\* A transaction hash as send_raw_transaction returns it.
TxHash == "0xhash"

\* What w3.eth.wait_for_transaction_receipt does: a receipt with status 1,
\* with status 0, without a status field, a timeout (TimeExhausted) after
\* 600 s, or another error.
WaitOutcomes == {"status1", "status0", "nostatus", "timeout", "error"}

\* Without the None check: the receipt is polled for whatever the hash.
verify_tx_poll_always(txh, wait) ==
    IF wait \in {"timeout", "error"}
    THEN [kind |-> "return", value |-> FALSE, polls |-> 1]
    ELSE [kind |-> "return", value |-> (wait = "status1"), polls |-> 1]

\* Any receipt counts as success.
verify_tx_any_receipt(txh, wait) ==
    IF txh = NONE
    THEN [kind |-> "return", value |-> FALSE, polls |-> 0]
    ELSE [kind |-> "return", value |-> (wait \notin {"timeout", "error"}), polls |-> 1]

\* polls counts the wait_for_transaction_receipt calls.
verify_tx(txh, wait) ==
    IF txh = NONE
    THEN [kind |-> "return", value |-> FALSE, polls |-> 0]
    ELSE IF wait \in {"timeout", "error"}
         THEN [kind |-> "return", value |-> FALSE, polls |-> 1]
         ELSE IF wait = "status1"
              THEN [kind |-> "return", value |-> TRUE, polls |-> 1]
              ELSE [kind |-> "return", value |-> FALSE, polls |-> 1]

(***************************************************************************)
(* core/client.py : Client.send_transaction                                *)
(***************************************************************************)

\* How one send_transaction goes: whether get_tx_params (chain id, nonce, fee
\* fields) succeeds, the node's answers to estimate_gas, whether signing
\* succeeds, and whether send_raw_transaction succeeds.
SendEnvs ==
    [params : {"ok", "raise"}, gas : GasScriptsSeen,
     sign : {"ok", "raise"}, raw : {"ok", "raise"}]

\* No try at all: a failed send_raw_transaction raises too.
send_transaction_no_try(env) ==
    IF env.params = "raise" THEN [kind |-> "raise", error |-> ErrOther, sent |-> 0]
    ELSE IF get_gas_estimate(env.gas).kind = "raise"
    THEN [kind |-> "raise", error |-> get_gas_estimate(env.gas).error, sent |-> 0]
    ELSE IF env.sign = "raise" THEN [kind |-> "raise", error |-> ErrOther, sent |-> 0]
    ELSE IF env.raw = "raise" THEN [kind |-> "raise", error |-> ErrOther, sent |-> 1]
    ELSE [kind |-> "return", value |-> TxHash, sent |-> 1]

\* sent counts the send_raw_transaction calls.
send_transaction(env) ==
    IF env.params = "raise"
    THEN [kind |-> "raise", error |-> ErrOther, sent |-> 0]
    ELSE LET g == get_gas_estimate(env.gas) IN
         IF g.kind = "raise"
         THEN [kind |-> "raise", error |-> g.error, sent |-> 0]
         ELSE IF env.sign = "raise"
              THEN [kind |-> "raise", error |-> ErrOther, sent |-> 0]
              ELSE IF env.raw = "ok"
                   THEN [kind |-> "return", value |-> TxHash, sent |-> 1]
                   ELSE [kind |-> "return", value |-> NONE, sent |-> 1]


(***************************************************************************)
(* core/client.py : Client.get_max_priority_fee_per_gas                    *)
(***************************************************************************)

\* max_priority_fee_per_gas = 1_500_000_000  # 1.5 gwei
DEFAULT_PRIORITY_FEE == 1500000000

\* The latest block as the node serves it: whether
\* get_block_transaction_count answers, what get_transaction_by_block gives
\* for each index (an error, a transaction without maxPriorityFeePerGas, a
\* transaction with it), and what w3.eth.max_priority_fee gives.
MaxTxs == 4
MaxFee == 4
BlockTxs ==
    {[kind |-> "error"], [kind |-> "legacy"]} \cup [kind : {"eip1559"}, fee : 1..MaxFee]
FeeSuggestions == {[ok |-> FALSE], [ok |-> TRUE, fee |-> MaxFee + 1]}
PriorityFeeEnvs ==
    UNION {[count_ok : BOOLEAN, txs : [1..n -> BlockTxs], suggested : FeeSuggestions] :
           n \in 0..MaxTxs}

\* max_priority_fee_per_gas_list after the loop over the block's transactions.
RECURSIVE fee_samples(_, _)
fee_samples(txs, n) ==
    IF n > Len(txs) THEN <<>>
    ELSE IF txs[n].kind = "eip1559"
         THEN <<txs[n].fee>> \o fee_samples(txs, n + 1)
         ELSE fee_samples(txs, n + 1)

\* list.sort()
RECURSIVE insert_sorted(_, _)
insert_sorted(x, s) ==
    IF s = <<>> THEN <<x>>
    ELSE IF x <= Head(s) THEN <<x>> \o s
         ELSE <<Head(s)>> \o insert_sorted(x, Tail(s))

RECURSIVE sort(_)
sort(s) == IF s = <<>> THEN <<>> ELSE insert_sorted(Head(s), sort(Tail(s)))

\* The median as statistics has it: for an even length the mean of the two
\* middle elements.
priority_fee_mean_median(env) ==
    LET list == sort(fee_samples(env.txs, 1))
        n == Len(list)
    IN  IF ~env.count_ok THEN Raise(ErrOther)
        ELSE IF list = <<>>
             THEN IF env.suggested.ok THEN Return(env.suggested.fee)
                  ELSE Return(DEFAULT_PRIORITY_FEE)
             ELSE IF n % 2 = 1 THEN Return(list[(n \div 2) + 1])
                  ELSE Return((list[n \div 2] + list[(n \div 2) + 1]) \div 2)

\* A failure of the node's suggestion is not caught.
priority_fee_no_fallback(env) ==
    LET list == sort(fee_samples(env.txs, 1))
    IN  IF ~env.count_ok THEN Raise(ErrOther)
        ELSE IF list = <<>>
             THEN IF env.suggested.ok THEN Return(env.suggested.fee)
                  ELSE Raise(ErrOther)
             ELSE Return(list[(Len(list) \div 2) + 1])

\* Python indexes from 0: list[len(list) // 2] is element (Len \div 2) + 1.
get_max_priority_fee_per_gas(env) ==
    LET list == sort(fee_samples(env.txs, 1))
    IN  IF ~env.count_ok THEN Raise(ErrOther)
        ELSE IF list = <<>>
             THEN IF env.suggested.ok THEN Return(env.suggested.fee)
                  ELSE Return(DEFAULT_PRIORITY_FEE)
             ELSE Return(list[(Len(list) \div 2) + 1])

(***************************************************************************)
(* core/client.py : Client._get_eip1559_params                             *)
(*                                                                         *)
(* A base fee is a Python int, of any size, and the product with           *)
(* GAS_MULTIPLIER is a Python float, an IEEE 754 double.  Naturals beyond   *)
(* 32 bits are sequences of digits; they are read and shown as sequences   *)
(* of decimal digits, most significant first.                              *)
(***************************************************************************)

\* A natural of any size is the sequence of its digits in base Limb, least
\* significant first, without leading zeros.
LimbBits == 13
Limb == 2^LimbBits

RECURSIVE NatOf(_)
NatOf(n) == IF n = 0 THEN <<>> ELSE <<n % Limb>> \o NatOf(n \div Limb)

RECURSIVE Norm(_)
Norm(a) ==
    IF a = <<>> THEN <<>>
    ELSE IF a[Len(a)] = 0 THEN Norm(SubSeq(a, 1, Len(a) - 1)) ELSE a

RECURSIVE AddCarry(_, _, _)
AddCarry(a, b, c) ==
    IF a = <<>> /\ b = <<>>
    THEN IF c = 0 THEN <<>> ELSE <<c>>
    ELSE LET x == IF a = <<>> THEN 0 ELSE Head(a)
             y == IF b = <<>> THEN 0 ELSE Head(b)
             t == x + y + c
         IN  <<t % Limb>> \o AddCarry(IF a = <<>> THEN <<>> ELSE Tail(a),
                                      IF b = <<>> THEN <<>> ELSE Tail(b), t \div Limb)

NatAdd(a, b) == Norm(AddCarry(a, b, 0))

\* a * m + c for a small m and a small c
RECURSIVE MulSmall(_, _, _)
MulSmall(a, m, c) ==
    IF a = <<>> THEN NatOf(c)
    ELSE LET t == Head(a) * m + c
         IN  <<t % Limb>> \o MulSmall(Tail(a), m, t \div Limb)

RECURSIVE NatMul(_, _)
NatMul(a, b) ==
    IF a = <<>> THEN <<>>
    ELSE NatAdd(Norm(MulSmall(b, Head(a), 0)), <<0>> \o NatMul(Tail(a), b))

\* Quotient and remainder of a by a small d.
RECURSIVE NatDivMod(_, _)
NatDivMod(a, d) ==
    IF a = <<>> THEN [q |-> <<>>, r |-> 0]
    ELSE LET hi == NatDivMod(Tail(a), d)
             t == hi.r * Limb + Head(a)
         IN  [q |-> Norm(<<t \div d>> \o hi.q), r |-> t % d]

\* The binary digits of a: how many there are, digit n (from 0), a * 2^s and
\* a \div 2^s.
BitLength(a) ==
    IF a = <<>> THEN 0
    ELSE LimbBits * (Len(a) - 1)
         + (CHOOSE k \in 1..LimbBits : 2^(k - 1) <= a[Len(a)] /\ a[Len(a)] < 2^k)
Bit(a, n) ==
    IF n \div LimbBits >= Len(a) THEN 0
    ELSE (a[(n \div LimbBits) + 1] \div 2^(n % LimbBits)) % 2
ShiftLeft(a, s) ==
    IF a = <<>> THEN <<>>
    ELSE [j \in 1..(s \div LimbBits) |-> 0] \o Norm(MulSmall(a, 2^(s % LimbBits), 0))
ShiftRight(a, s) ==
    LET q == s \div LimbBits
        r == s % LimbBits
        limb(j) == IF j <= Len(a) THEN a[j] ELSE 0
    IN  IF Len(a) <= q THEN <<>>
        ELSE Norm([j \in 1..(Len(a) - q) |->
                      (limb(j + q) \div 2^r) + (limb(j + q + 1) % 2^r) * 2^(LimbBits - r)])

\* Decimal digits, most significant first, to a natural and back.
RECURSIVE FromDecimal(_)
FromDecimal(ds) ==
    IF ds = <<>> THEN <<>>
    ELSE Norm(MulSmall(FromDecimal(SubSeq(ds, 1, Len(ds) - 1)), 10, ds[Len(ds)]))

RECURSIVE ToDecimal(_)
ToDecimal(a) ==
    IF a = <<>> THEN <<>>
    ELSE LET dm == NatDivMod(a, 10) IN ToDecimal(dm.q) \o <<dm.r>>

Decimal(a) == IF a = <<>> THEN <<0>> ELSE ToDecimal(a)

\* A small natural as decimal digits, and back.
DecimalOf(n) == Decimal(NatOf(n))
RECURSIVE IntOf(_)
IntOf(ds) == IF ds = <<>> THEN 0 ELSE 10 * IntOf(SubSeq(ds, 1, Len(ds) - 1)) + ds[Len(ds)]

\* The significand of a double has 53 binary digits.
DOUBLE_DIGITS == 53

\* The natural a rounded to DOUBLE_DIGITS significant binary digits, to the
\* nearest, a tie to the even one: what a double can hold of it.
RoundToDouble(a) ==
    LET s == BitLength(a) - DOUBLE_DIGITS
        keep == ShiftRight(a, s)
        half == Bit(a, s - 1) = 1
        more == \E n \in 0..(s - 2) : Bit(a, n) = 1
        up == half /\ (more \/ Bit(a, s) = 1)
    IN  IF s <= 0 THEN a
        ELSE ShiftLeft(IF up THEN NatAdd(keep, <<1>>) ELSE keep, s)

\* GAS_MULTIPLIER = 1.2, as a fraction, and the significand of the double the
\* literal denotes: 1.2 * 2^52 rounded to the nearest natural.
GAS_MULTIPLIER == [num |-> 6, den |-> 5]
GasMultiplierSignificand ==
    LET dm == NatDivMod(ShiftLeft(NatOf(GAS_MULTIPLIER.num), DOUBLE_DIGITS - 1),
                        GAS_MULTIPLIER.den)
    IN  IF 2 * dm.r > GAS_MULTIPLIER.den THEN NatAdd(dm.q, <<1>>) ELSE dm.q

\* int(base_fee * GAS_MULTIPLIER): the int is converted to a double, the
\* product of the two doubles is rounded to a double, int() truncates it.
scaled_base_fee(base_fee) ==
    ShiftRight(RoundToDouble(NatMul(RoundToDouble(base_fee), GasMultiplierSignificand)),
               DOUBLE_DIGITS - 1)

\* The latest block: whether get_block answers, its baseFeePerGas (decimal
\* digits), and what the node serves for the priority fee.
BaseFees ==
    { <<0>>, <<7>>,
      <<1, 0, 0, 0, 0, 0, 0, 0, 0, 0, 0>>,
      <<3, 7, 5, 2, 9, 9, 9, 6, 8, 9, 4, 7, 5, 4, 1, 3>>,
      <<3, 7, 5, 2, 9, 9, 9, 6, 8, 9, 4, 7, 5, 4, 1, 4>>,
      <<9, 0, 0, 7, 1, 9, 9, 2, 5, 4, 7, 4, 0, 9, 9, 3>> }
Eip1559Envs ==
    [block_ok : BOOLEAN, base_fee : BaseFees,
     fees : {env \in PriorityFeeEnvs : Len(env.txs) <= 1}]

_get_eip1559_params(env) ==
    LET max_priority_fee_per_gas == get_max_priority_fee_per_gas(env.fees)
        base_fee == scaled_base_fee(FromDecimal(env.base_fee))
    IN  IF ~env.block_ok THEN Raise(ErrOther)
        ELSE IF max_priority_fee_per_gas.kind = "raise" THEN max_priority_fee_per_gas
        ELSE Return([max_priority_fee_per_gas |-> max_priority_fee_per_gas.value,
                     max_fee_per_gas |->
                         Decimal(NatAdd(base_fee,
                                        NatOf(max_priority_fee_per_gas.value)))])

(***************************************************************************)
(* core/utils.py : sleep_pause, retry_on_fail                              *)
(***************************************************************************)

\* Python values of several types, told apart as Python's `is` does.
PyNone == [type |-> "NoneType"]
PyBool(b) == [type |-> "bool", bool |-> b]
PyInt(n) == [type |-> "int", int |-> n]

\* sleep_pause draws delay = random.randint(*delay_range) and sleeps that
\* long; of the range the two ends are drawn.
sleep_pause(delay_range, draw) ==
    IF draw = "lo" THEN delay_range[1] ELSE delay_range[2]

\* retry_on_fail(tries, retry_delay): the default of retry_delay.
DEFAULT_RETRY_DELAY == <<5, 10>>
RetryDelay(retry_delay) == IF retry_delay = <<>> THEN DEFAULT_RETRY_DELAY ELSE retry_delay

\* result is None or result is False
IsFailure(result) == result = PyNone \/ result = PyBool(FALSE)

\* A decorated function and its surroundings: the number of tries, what the
\* function does on each call, the delay range and what randint draws.
MaxTries == 3
RetryResults == {PyNone, PyBool(FALSE), PyBool(TRUE), PyInt(0), PyInt(1)}
RetryOutcomes == {Return(v) : v \in RetryResults} \cup {Raise(ErrOther)}
RetryEnvs ==
    UNION {[tries : {n}, script : [1..n -> RetryOutcomes],
            retry_delay : {<<>>, <<1, 2>>}, draws : [1..n -> {"lo", "hi"}]] :
           n \in 1..MaxTries}

\* The wrapper with one line changed: what is returned when every attempt
\* failed, which results count as failures, whether an exception is caught,
\* whether the last attempt is followed by a sleep.
RECURSIVE retry_variant(_, _, _, _)
retry_variant(env, attempt, slept, v) ==
    IF attempt >= env.tries
    THEN [kind |-> "return", value |-> IF v = "none" THEN PyNone ELSE PyBool(FALSE),
          calls |-> attempt, slept |-> slept]
    ELSE LET r == env.script[attempt + 1]
             pause == sleep_pause(RetryDelay(env.retry_delay), env.draws[attempt + 1])
             failed == \/ r.kind = "raise"
                       \/ IsFailure(r.value)
                       \/ v = "falsy" /\ r.value = PyInt(0)
         IN  IF r.kind = "raise" /\ v # "catch"
             THEN [kind |-> "raise", error |-> r.error, calls |-> attempt + 1,
                   slept |-> slept]
             ELSE IF failed
             THEN IF attempt < env.tries - 1 \/ v = "sleep"
                  THEN retry_variant(env, attempt + 1, Append(slept, pause), v)
                  ELSE retry_variant(env, attempt + 1, slept, v)
             ELSE [kind |-> "return", value |-> r.value, calls |-> attempt + 1,
                   slept |-> slept]

\* None comes back when every attempt failed.
retry_returns_none(env, attempt, slept) == retry_variant(env, attempt, slept, "none")
\* Every falsy result is a failure: `not result`.
retry_on_falsy(env, attempt, slept) == retry_variant(env, attempt, slept, "falsy")
\* An exception of the function is a failed attempt.
retry_catches(env, attempt, slept) == retry_variant(env, attempt, slept, "catch")
\* A sleep follows the last attempt too.
retry_sleeps_after_last(env, attempt, slept) == retry_variant(env, attempt, slept, "sleep")

\* wrapper, from attempt `attempt` (from 0) on.  calls counts the calls of
\* the function, slept lists the durations of the sleeps taken.
RECURSIVE retry_loop(_, _, _)
retry_loop(env, attempt, slept) ==
    IF attempt >= env.tries
    THEN [kind |-> "return", value |-> PyBool(FALSE), calls |-> attempt, slept |-> slept]
    ELSE LET r == env.script[attempt + 1] IN
         IF r.kind = "raise"
         THEN [kind |-> "raise", error |-> r.error, calls |-> attempt + 1, slept |-> slept]
         ELSE IF IsFailure(r.value)
         THEN IF attempt < env.tries - 1
              THEN retry_loop(env, attempt + 1,
                       Append(slept, sleep_pause(RetryDelay(env.retry_delay),
                                                 env.draws[attempt + 1])))
              ELSE retry_loop(env, attempt + 1, slept)
         ELSE [kind |-> "return", value |-> r.value, calls |-> attempt + 1,
               slept |-> slept]

retry_on_fail(env) == retry_loop(env, 0, <<>>)

(***************************************************************************)
(* core/client.py : Client.get_native_balance                              *)
(***************************************************************************)

\* @retry_on_fail(tries=RETRIES)
RETRIES == 10

\* float(from_wei(balance, 'ether')): the balance in ether, as a float.
PyEther(wei) == [type |-> "float", ether_of_wei |-> wei]

\* The node fails the first `fails` balance queries and then answers
\* `balance`, in wei; the caller asks for wei or for ether.
MaxBalance == 1
NativeBalanceEnvs ==
    [fails : 0..RETRIES, balance : 0..MaxBalance, wei : BOOLEAN,
     draws : [1..RETRIES -> {"lo", "hi"}]]

\* The undecorated function returning `balance or None`: None for a balance
\* of 0 too.
native_balance_once_zero_is_none(env, n) ==
    IF n <= env.fails \/ env.balance = 0
    THEN Return(PyNone)
    ELSE Return(IF env.wei THEN PyInt(env.balance) ELSE PyEther(env.balance))

\* The undecorated function, on its n-th call: None when the query raises.
native_balance_once(env, n) ==
    IF n <= env.fails
    THEN Return(PyNone)
    ELSE Return(IF env.wei THEN PyInt(env.balance) ELSE PyEther(env.balance))

get_native_balance(env) ==
    retry_on_fail([tries |-> RETRIES,
                   script |-> [n \in 1..RETRIES |-> native_balance_once(env, n)],
                   retry_delay |-> <<>>,
                   draws |-> env.draws])

(***************************************************************************)
(* core/database.py : Database                                             *)
(***************************************************************************)

\* The address of the client a Stargate object is bound to, and another
\* wallet's.
Wallet == "0xA"
OtherWallet == "0xB"
Wallets == {Wallet, OtherWallet}

\* _create_default_db.  shape tells whether the store has the structure the
\* code indexes: "ok", "no_transactions" (no transactions mapping) or
\* "no_stats" (no stats counters).  A wallet without a list has the empty one.
DefaultDb ==
    [shape |-> "ok", transactions |-> [w \in Wallets |-> <<>>],
     total_transactions |-> 0, total_value_bridged |-> 0]

\* JSON values: null, true, false, a number (its decimal digits), a string.
\* Arrays are sequences and objects are functions of their keys.
JNull == [json |-> "null"]
JBool(b) == [json |-> IF b THEN "true" ELSE "false"]
JNumber(n) == [json |-> "number", digits |-> DecimalOf(n)]
JString(str) == [json |-> "string", chars |-> str]

\* The fields of a record that hold a number or None, and those that hold a
\* string or None.
NumberFields == {"amount", "gas_fee", "total_fee", "message_fee_wei"}
BoolFields == {"success"}

\* json.dump of one field of a record, and json.load of it.
dump_field(key, v) ==
    IF key \in NumberFields THEN (IF v = Nothing THEN JNull ELSE JNumber(v[1]))
    ELSE IF key \in BoolFields THEN JBool(v)
    ELSE IF v = NONE THEN JNull ELSE JString(v)
load_field(key, j) ==
    IF key \in NumberFields
    THEN (IF j.json = "null" THEN Nothing ELSE Some(IntOf(j.digits)))
    ELSE IF key \in BoolFields THEN j.json = "true"
    ELSE IF j.json = "null" THEN NONE ELSE j.chars

\* json.dump(self.data, f): the text of the file, as a JSON value.  A wallet
\* is a key of "transactions" once a record was appended for it.
json_dump(d) ==
    LET transactions ==
            [w \in {w \in Wallets : d.transactions[w] # <<>>} |->
                [i \in 1..Len(d.transactions[w]) |->
                    [key \in DOMAIN d.transactions[w][i] |->
                        dump_field(key, d.transactions[w][i][key])]]]
        stats == [total_transactions |-> JNumber(d.total_transactions),
                  total_value_bridged |-> JNumber(d.total_value_bridged)]
    IN  IF d.shape = "no_transactions" THEN [stats |-> stats]
        ELSE IF d.shape = "no_stats" THEN [transactions |-> transactions]
        ELSE [transactions |-> transactions, stats |-> stats]

\* json.load(f) of such a text.
json_load(j) ==
    LET wallets == IF "transactions" \in DOMAIN j THEN DOMAIN j.transactions ELSE {}
    IN  [shape |-> IF "transactions" \notin DOMAIN j THEN "no_transactions"
                   ELSE IF "stats" \notin DOMAIN j THEN "no_stats" ELSE "ok",
         transactions |->
             [w \in Wallets |->
                 IF w \in wallets
                 THEN [i \in 1..Len(j.transactions[w]) |->
                          [key \in DOMAIN j.transactions[w][i] |->
                              load_field(key, j.transactions[w][i][key])]]
                 ELSE <<>>],
         total_transactions |->
             IF "stats" \in DOMAIN j THEN IntOf(j.stats.total_transactions.digits) ELSE 0,
         total_value_bridged |->
             IF "stats" \in DOMAIN j THEN IntOf(j.stats.total_value_bridged.digits) ELSE 0]

\* The ledger file: absent, bytes that are no text (open(.., 'r') cannot
\* decode them), text that is not JSON, or the JSON text of a store.
JsonFile(text) == [state |-> "json", text |-> text]
AbsentFile == [state |-> "absent"]
CorruptFile == [state |-> "corrupt"]
UndecodableFile == [state |-> "undecodable"]

\* The file json.dump writes for the store d.
FileOf(d) == JsonFile(json_dump(d))

\* The files with which the process starts (db = Database() at import
\* returns): none, a garbled one, the file of an empty store, and valid JSON
\* of another structure.
InitialFiles ==
    {AbsentFile, CorruptFile, FileOf(DefaultDb),
     FileOf([DefaultDb EXCEPT !.shape = "no_transactions"]),
     FileOf([DefaultDb EXCEPT !.shape = "no_stats"])}

ErrUnicodeDecode == "'utf-8' codec can't decode byte 0xff in position 0"

\* _load_db: json.load of an existing file, the default store when the file is
\* absent or json.load raises JSONDecodeError; any other exception of open or
\* json.load is not caught.
_load_db(f) ==
    IF f.state = "json" THEN Return(json_load(f.text))
    ELSE IF f.state = "undecodable" THEN Raise(ErrUnicodeDecode)
    ELSE Return(DefaultDb)

\* _load_db where it returns.
load_db(f) == _load_db(f).value

\* How one _save_db goes: written; os.makedirs or open fails (the file is left
\* as it was); json.dump fails after open(.., 'w') truncated the file.
SaveOutcomes == {"ok", "fail_open", "fail_write"}

\* _save_db that opens the file with mode 'a': a second write follows the
\* first in the file.
save_db_appends(d, f, save) ==
    IF save = "ok"
    THEN [value |-> TRUE, file |-> IF f.state = "absent" THEN FileOf(d) ELSE CorruptFile]
    ELSE [value |-> FALSE, file |-> f]

\* _save_db that leaves a garbled file as it is and reports success.
save_db_keeps_garbled(d, f, save) ==
    IF save = "ok"
    THEN [value |-> TRUE, file |-> IF f.state = "corrupt" THEN f ELSE FileOf(d)]
    ELSE IF save = "fail_open" THEN [value |-> FALSE, file |-> f]
    ELSE [value |-> FALSE, file |-> CorruptFile]

\* _save_db: [value, file].
save_db(d, f, save) ==
    IF save = "ok" THEN [value |-> TRUE, file |-> FileOf(d)]
    ELSE IF save = "fail_open" THEN [value |-> FALSE, file |-> f]
    ELSE [value |-> FALSE, file |-> CorruptFile]

\* add_transaction without its try/except: a failed save raises.
add_transaction_no_catch(d, f, w, tx, save) ==
    LET counted == [d EXCEPT !.transactions[w] = Append(@, tx),
                             !.total_transactions = @ + 1] IN
    IF save = "ok"
    THEN [kind |-> "return", value |-> TRUE, data |-> counted, file |-> FileOf(counted)]
    ELSE [kind |-> "raise", error |-> "Failed to save database", data |-> counted, file |-> f]

\* add_transaction that forgets to save.
add_transaction_no_save(d, f, w, tx, save) ==
    [kind |-> "return", value |-> TRUE,
     data |-> [d EXCEPT !.transactions[w] = Append(@, tx),
                        !.total_transactions = @ + 1],
     file |-> f]

\* datetime.now().isoformat(), and the time.time() of bridge's records.
Now == "2026-01-01T00:00:00"
Time == "1767225600.0"

\* add_transaction that counts a record where it sums it: successes only.
add_transaction_counts_successes(d, f, w, tx, save) ==
    LET stamped == IF "timestamp" \in DOMAIN tx THEN tx ELSE tx @@ [timestamp |-> Now]
        succeeded == /\ "success" \in DOMAIN tx /\ tx.success
                     /\ "amount" \in DOMAIN tx /\ tx.amount # Nothing
        changed == IF succeeded
                   THEN [d EXCEPT !.transactions[w] = Append(@, stamped),
                                  !.total_transactions = @ + 1,
                                  !.total_value_bridged = @ + tx.amount[1]]
                   ELSE [d EXCEPT !.transactions[w] = Append(@, stamped)]
        written == save_db(changed, f, save)
    IN  [kind |-> "return", value |-> written.value, data |-> changed,
         file |-> written.file]

\* add_transaction that sums the amount of every record, failed ones too.
add_transaction_sums_all(d, f, w, tx, save) ==
    LET stamped == IF "timestamp" \in DOMAIN tx THEN tx ELSE tx @@ [timestamp |-> Now]
        has_amount == "amount" \in DOMAIN tx /\ tx.amount # Nothing
        changed == [d EXCEPT !.transactions[w] = Append(@, stamped),
                             !.total_transactions = @ + 1,
                             !.total_value_bridged =
                                 @ + (IF has_amount THEN tx.amount[1] ELSE 0)]
        written == save_db(changed, f, save)
    IN  [kind |-> "return", value |-> written.value, data |-> changed,
         file |-> written.file]

\* add_transaction: [kind, value, data, file].  Every exception is caught
\* (line 111) and gives False, with whatever was changed before it.  A key a
\* record lacks is outside its DOMAIN; tx_data.get("success", False).
add_transaction(d, f, w, tx, save) ==
    IF d.shape = "no_transactions"
    THEN [kind |-> "return", value |-> FALSE, data |-> d, file |-> f]
    ELSE LET stamped == IF "timestamp" \in DOMAIN tx THEN tx
                        ELSE tx @@ [timestamp |-> Now]
             appended == [d EXCEPT !.transactions[w] = Append(@, stamped)]
             succeeded == "success" \in DOMAIN tx /\ tx.success
         IN
         IF d.shape = "no_stats"
         THEN [kind |-> "return", value |-> FALSE, data |-> appended, file |-> f]
         ELSE LET counted == [appended EXCEPT !.total_transactions = @ + 1] IN
              IF "amount" \in DOMAIN tx /\ succeeded
              THEN IF tx.amount = Nothing
                   THEN \* float(None) raises TypeError after the count
                        [kind |-> "return", value |-> FALSE, data |-> counted,
                         file |-> f]
                   ELSE LET summed == [counted EXCEPT
                                          !.total_value_bridged = @ + tx.amount[1]]
                            written == save_db(summed, f, save)
                        IN [kind |-> "return", value |-> written.value,
                            data |-> summed, file |-> written.file]
              ELSE LET written == save_db(counted, f, save)
                   IN [kind |-> "return", value |-> written.value,
                       data |-> counted, file |-> written.file]

(***************************************************************************)
(* core/stargate.py : Stargate                                             *)
(***************************************************************************)

\* GAS_FEES_ESTIMATION_MULTIPLIER = 0.99, as a percentage.
GAS_FEES_ESTIMATION_PERCENT == 99

\* The amount a caller asks to bridge, the wallet's balance and the native
\* messaging fee quoteSend answers with, in wei, and the gas price.
RequestedAmount == 200
Balance == 300
MessageFee == 1
GasPrice == 1

\* The node's answers to estimate_gas inside a bridge call: every script
\* get_gas_estimate tells apart, with one gas value.
BridgeGasScripts ==
    {node \in GasScriptsSeen : \A i \in DOMAIN node : node[i].ok => node[i].gas = 1}

\* How one _estimate_amount_for_full_amount_bridge goes: whether _get_tx_data
\* (the quote), get_tx_params and the gas price read succeed, the node's
\* answers to estimate_gas, and whether the balance read (used when amount is
\* None) gives the balance or False after its retries.
EstimateEnvs ==
    [quote : {"ok", "raise"}, params : {"ok", "raise"}, gas : BridgeGasScripts,
     price : {"ok", "raise"}, balance : {"ok", "false"}]

\* The messages of the exceptions _estimate_amount_for_full_amount_bridge and
\* _get_tx_data raise in place of the one they caught.
EstimateError == "Failed to estimate transaction fees"
QuoteError == "Failed to build tx data"

\* MAX_SLIPPAGE = 1, a percentage.
MAX_SLIPPAGE == 1

\* int(n / d) for naturals n and d, d small: Python's true division gives the
\* double nearest to the quotient (a tie to the even one), int() truncates it.
\* The quotient is taken with enough binary digits after the point (shift)
\* to round it; rest tells whether digits beyond those are left.
true_divide_int(n, d) ==
    LET shift == IF BitLength(n) >= DOUBLE_DIGITS + LimbBits THEN 0
                 ELSE DOUBLE_DIGITS + LimbBits - BitLength(n)
        dm == NatDivMod(ShiftLeft(n, shift), d)
        s == BitLength(dm.q) - DOUBLE_DIGITS
        keep == ShiftRight(dm.q, s)
        half == Bit(dm.q, s - 1) = 1
        rest == dm.r # 0 \/ \E k \in 0..(s - 2) : Bit(dm.q, k) = 1
        up == half /\ (rest \/ Bit(dm.q, s) = 1)
        significand == IF up THEN NatAdd(keep, <<1>>) ELSE keep
    IN  IF n = <<>> THEN <<>>
        ELSE IF s >= shift THEN ShiftLeft(significand, s - shift)
        ELSE ShiftRight(significand, shift - s)

\* The amounts _get_tx_data is called with, in wei (decimal digits): zero, a
\* few wei, STARGATE_FULL_BRIDGE_SIMULATION_TX_VALUE, amounts around
\* 0.00014 ETH, 0.12 ETH and 1 ETH.
TxAmounts ==
    { <<0>>, <<1>>, <<1, 0, 0>>, <<1, 9, 9>>,
      <<1, 0, 0, 0, 0, 0, 0, 0, 0, 0, 0, 0, 0, 0>>,
      <<1, 4, 2, 1, 5, 9, 0, 7, 9, 1, 4, 6, 8, 0, 0>>,
      <<1, 4, 2, 1, 5, 9, 0, 7, 9, 1, 4, 6, 8, 0, 1>>,
      <<1, 2, 3, 4, 5, 6, 7, 8, 9, 0, 1, 2, 3, 4, 5, 6, 7, 8>>,
      <<1, 0, 0, 0, 0, 0, 0, 0, 0, 0, 0, 0, 0, 0, 0, 0, 0, 0, 0>>,
      <<1, 0, 0, 0, 0, 0, 0, 0, 0, 0, 0, 0, 0, 0, 0, 0, 2, 0, 0>> }

\* The native fee quoteSend answers with, in wei.
MaxQuote == 2

\* One _get_tx_data call: the amount, the mode, and whether quoteSend answers
\* (with message_fee[0] = fee) or raises.
TxDataEnvs ==
    [amount : TxAmounts, mode : {"TAXI", "BUS"}, quote : {"ok", "raise"},
     fee : 0..MaxQuote]

\* _get_tx_data: (value, send_param, message_fee), the numbers as decimal
\* digits; any exception is replaced by "Failed to build tx data".
_get_tx_data(env) ==
    LET amt == FromDecimal(env.amount)
        send_param ==
            [amount |-> env.amount,
             min_amount |->
                 Decimal(true_divide_int(Norm(MulSmall(amt, 100 - MAX_SLIPPAGE, 0)), 100)),
             oft_cmd |-> IF env.mode = "BUS" THEN "0x01" ELSE "0x"]
    IN  IF env.quote = "raise" THEN Raise(QuoteError)
        ELSE Return([value |-> Decimal(NatAdd(amt, NatOf(env.fee))),
                     send_param |-> send_param,
                     message_fee |-> env.fee])

\* STARGATE_FULL_BRIDGE_SIMULATION_TX_VALUE = 10000000000000 (decimal digits)
STARGATE_FULL_BRIDGE_SIMULATION_TX_VALUE == <<1, 0, 0, 0, 0, 0, 0, 0, 0, 0, 0, 0, 0, 0>>

\* The estimate that starts from the balance whatever amount is.
estimate_always_from_balance(amt, e) ==
    LET amount_wei == IF amt = Nothing THEN STARGATE_FULL_BRIDGE_SIMULATION_TX_VALUE
                      ELSE DecimalOf(amt[1])
        q == _get_tx_data([amount |-> amount_wei, mode |-> e.mode, quote |-> e.quote,
                           fee |-> e.fee])
        g == get_gas_estimate(e.gas)
    IN  IF q.kind = "raise" \/ e.params = "raise" THEN Raise(EstimateError)
        ELSE IF g.kind = "raise" \/ e.price = "raise" THEN Raise(EstimateError)
        ELSE LET gas_fee == g.value * e.gas_price
                 initial_amount == IF e.balance = "ok" THEN e.wallet ELSE 0
                 left == initial_amount - q.value.message_fee - gas_fee
             IN  IF left < 0 THEN Raise(EstimateError)
                 ELSE [kind |-> "return",
                       value |-> Some((left * GAS_FEES_ESTIMATION_PERCENT) \div 100),
                       quoted |-> amount_wei]

\* The estimate giving 0 when the fees exceed the initial amount.
estimate_negative_is_zero(amt, e) ==
    LET amount_wei == IF amt = Nothing THEN STARGATE_FULL_BRIDGE_SIMULATION_TX_VALUE
                      ELSE DecimalOf(amt[1])
        q == _get_tx_data([amount |-> amount_wei, mode |-> e.mode, quote |-> e.quote,
                           fee |-> e.fee])
        g == get_gas_estimate(e.gas)
    IN  IF q.kind = "raise" \/ e.params = "raise" THEN Raise(EstimateError)
        ELSE IF g.kind = "raise" \/ e.price = "raise" THEN Raise(EstimateError)
        ELSE LET gas_fee == g.value * e.gas_price
                 initial_amount == IF amt = Nothing
                                   THEN (IF e.balance = "ok" THEN e.wallet ELSE 0)
                                   ELSE amt[1]
                 left == initial_amount - q.value.message_fee - gas_fee
             IN  [kind |-> "return",
                  value |-> Some(IF left < 0 THEN 0
                                 ELSE (left * GAS_FEES_ESTIMATION_PERCENT) \div 100),
                  quoted |-> amount_wei]

\* _estimate_amount_for_full_amount_bridge(amt, ..), amt in wei.  e tells how
\* the calls go: whether quoteSend answers and with which fee, whether
\* get_tx_params succeeds, the node's answers to estimate_gas, whether the gas
\* price is read and what it is, whether the balance read gives the wallet's
\* balance or False after its retries.  With amount None the quote and the gas
\* estimate are made for STARGATE_FULL_BRIDGE_SIMULATION_TX_VALUE and the
\* balance is read afterwards.  from_wei raises on a negative number.  The
\* result is kept in wei: for the amounts of this model the float product with
\* 0.99, brought to ether and back to whole wei, is the product rounded down.
\* quoted is the amount the quote was made for.
_estimate_amount_for_full_amount_bridge(amt, e) ==
    LET amount_wei == IF amt = Nothing THEN STARGATE_FULL_BRIDGE_SIMULATION_TX_VALUE
                      ELSE DecimalOf(amt[1])
        q == _get_tx_data([amount |-> amount_wei, mode |-> e.mode, quote |-> e.quote,
                           fee |-> e.fee])
        g == get_gas_estimate(e.gas)
    IN  IF q.kind = "raise" \/ e.params = "raise" THEN Raise(EstimateError)
        ELSE IF g.kind = "raise" \/ e.price = "raise" THEN Raise(EstimateError)
        ELSE LET gas_fee == g.value * e.gas_price
                 initial_amount == IF amt = Nothing
                                   THEN (IF e.balance = "ok" THEN e.wallet ELSE 0)
                                   ELSE amt[1]
                 left == initial_amount - q.value.message_fee - gas_fee
             IN  IF left < 0 THEN Raise(EstimateError)
                 ELSE [kind |-> "return",
                       value |-> Some((left * GAS_FEES_ESTIMATION_PERCENT) \div 100),
                       quoted |-> amount_wei]

\* The node's answers to estimate_gas that the first call settles.
ShortGasScripts == {node \in GasScriptsSeen : node[1].ok \/ ~IsReorg(node[1].error)}

\* One _estimate_amount_for_full_amount_bridge call: its amount and how its
\* calls go.
EstimateValueEnvs ==
    [amount : {Nothing, Some(RequestedAmount)},
     quote : {"ok", "raise"}, fee : 0..MaxQuote, mode : {"TAXI"},
     params : {"ok", "raise"}, gas : ShortGasScripts,
     price : {"ok", "raise"}, gas_price : {GasPrice, GasPrice + 1},
     balance : {"ok", "false"}, wallet : {MessageFee, Balance}]

\* The estimate inside a bridge call of Spec: one fee, one gas price, one
\* balance.
estimate_amount(amt, env) ==
    LET r == _estimate_amount_for_full_amount_bridge(amt,
                 [quote |-> env.quote, fee |-> MessageFee, mode |-> "TAXI",
                  params |-> env.params, gas |-> env.gas, price |-> env.price,
                  gas_price |-> GasPrice, balance |-> env.balance, wallet |-> Balance])
    IN  IF r.kind = "return" THEN Return(r.value) ELSE Raise(r.error)

\* error_data and tx_data, the fields the ledger reads and the outcome.
error_data(amt, e) ==
    [amount |-> amt, success |-> FALSE, tx_hash |-> NONE, error |-> e,
     timestamp |-> Time]
tx_data(amt, ok, txh) ==
    [amount |-> amt, success |-> ok, tx_hash |-> txh, error |-> NONE,
     timestamp |-> Time]

\* tx_data and error_data with the fee fields, in wei: gas_fee_eth,
\* total_fee_eth and message_fee_wei (error_data has none of them).
\* tx_data_success_by_hash records a success whenever there is a hash.
tx_data_success_by_hash(amt, ok, txh, gas_fee, total_fee, message_fee) ==
    [amount |-> amt, success |-> (txh # NONE), tx_hash |-> txh, error |-> NONE,
     gas_fee |-> Some(gas_fee), total_fee |-> Some(total_fee),
     message_fee_wei |-> Some(message_fee), timestamp |-> Time]
tx_data_fees(amt, ok, txh, gas_fee, total_fee, message_fee) ==
    [amount |-> amt, success |-> ok, tx_hash |-> txh, error |-> NONE,
     gas_fee |-> Some(gas_fee), total_fee |-> Some(total_fee),
     message_fee_wei |-> Some(message_fee), timestamp |-> Time]
error_data_fees(amt, e) ==
    [amount |-> amt, success |-> FALSE, tx_hash |-> NONE, error |-> e,
     gas_fee |-> Nothing, total_fee |-> Nothing, message_fee_wei |-> Nothing,
     timestamp |-> Time]

\* By how much the messaging fee of the second quote may exceed the first.
FeeRise == 5

\* send_transaction inside a bridge call: a hash, None after a failed raw
\* send, or an exception before anything is sent.
ValueSendEnvs ==
    {env \in SendEnvs :
        /\ env.params = "ok"
        /\ env.gas \in ShortGasScripts /\ env.gas[1].ok /\ env.gas[1].gas = 1
        /\ env.sign = "raise" => env.raw = "ok"}

\* The first of the calls of a bridge call, among those that either succeed
\* or raise, to raise: the gas price read (line 156), in the estimate the
\* quote, get_tx_params, get_gas_estimate and the gas price read (lines
\* 100-107), the second quote (172), get_tx_params (179), get_gas_estimate
\* (180), the construction of tx_data (216-232).
ValueFailures ==
    {"none", "gas_price", "est_quote", "est_params", "est_gas", "est_price", "quote",
     "tx_params", "gas_estimate", "record"}

\* One bridge call: its arguments and what the network does.  used is the gas
\* the transaction uses once mined; receipt tells whether
\* get_transaction_receipt gives a receipt with gasUsed, one without, or
\* raises.  Either none of the calls of ValueFailures raises, or one does and
\* the others go well.
GasOf(gas) == CHOOSE node \in ShortGasScripts : node[1].ok /\ node[1].gas = gas
FailingGas == CHOOSE node \in ShortGasScripts : ~node[1].ok
BridgeEnvs ==
    [amount : {Nothing, Some(RequestedAmount)}, include_fees : BOOLEAN,
     fail : {"none"},
     gas_price : {GasPrice, GasPrice + 1},
     est_gas : {GasOf(gas) : gas \in 1..MaxGas}, balance : {"ok", "false"},
     fee : {MessageFee, MessageFee + FeeRise},
     gas : {GasOf(gas) : gas \in 1..MaxGas},
     send : ValueSendEnvs,
     wait : {"status1", "status0"},
     used : 1..MaxGas,
     receipt : {"gasUsed", "no_gasUsed", "raise"}]
    \cup
    [amount : {Nothing, Some(RequestedAmount)}, include_fees : BOOLEAN,
     fail : ValueFailures \ {"none"},
     gas_price : {GasPrice},
     est_gas : {GasOf(1)}, balance : {"ok"},
     fee : {MessageFee, MessageFee + FeeRise},
     gas : {GasOf(1)},
     send : {env \in ValueSendEnvs : env.sign = "ok" /\ env.raw = "ok"},
     wait : {"status1"},
     used : {1},
     receipt : {"gasUsed"}]

\* How the estimate of a bridge call goes under env.
EstimateEnvOf(env) ==
    [quote |-> IF env.fail = "est_quote" THEN "raise" ELSE "ok",
     fee |-> MessageFee, mode |-> "TAXI",
     params |-> IF env.fail = "est_params" THEN "raise" ELSE "ok",
     gas |-> IF env.fail = "est_gas" THEN FailingGas ELSE env.est_gas,
     price |-> IF env.fail = "est_price" THEN "raise" ELSE "ok",
     gas_price |-> GasPrice, balance |-> env.balance, wallet |-> Balance]

\* The second quote reuses the fee of the estimate's quote.
final_quote_reuses_fee(amt, env) ==
    _get_tx_data([amount |-> DecimalOf(amt[1]), mode |-> "TAXI",
                  quote |-> IF env.fail = "quote" THEN "raise" ELSE "ok",
                  fee |-> IF env.amount = Nothing \/ env.include_fees
                          THEN MessageFee ELSE env.fee])

\* lines 172-174: _get_tx_data for the final amount.
final_quote(amt, env) ==
    _get_tx_data([amount |-> DecimalOf(amt[1]), mode |-> "TAXI",
                  quote |-> IF env.fail = "quote" THEN "raise" ELSE "ok",
                  fee |-> env.fee])

\* lines 198-213: actual_gas_fee_eth, in wei.  It stays 0 when the receipt is
\* not fetched or its fetch raises; receipt.get('gasUsed', gas_estimate).
actual_gas_fee(confirmed, env, gas_estimate) ==
    IF ~confirmed \/ env.receipt = "raise" THEN 0
    ELSE (IF env.receipt = "gasUsed" THEN env.used ELSE gas_estimate) * env.gas_price

\* lines 210-211, 225: total_fee_eth, in wei.
total_fee(confirmed, env, gas_estimate, message_fee) ==
    IF confirmed /\ env.receipt # "raise"
    THEN actual_gas_fee(confirmed, env, gas_estimate) + message_fee
    ELSE gas_estimate * env.gas_price + message_fee

\* The outer handler (lines 237-253): error_data, False.  quoted is the value
\* the second quote gave, if it was made; sent lists the send_transaction
\* calls made, with their arguments.
bridge_failed(amt, e, quoted, sent_args) ==
    [kind |-> "return", value |-> FALSE, quoted |-> quoted, sent |-> sent_args,
     record |-> error_data_fees(amt, e)]

\* lines 179-236 of bridge, with the amount amt and the answer q of the quote
\* for it: parameters, gas estimate, submission, confirmation, the record.
bridge_quoted(env, amt, q) ==
    LET value == IntOf(q.value.value)
        message_fee == q.value.message_fee
        g == get_gas_estimate(IF env.fail = "gas_estimate" THEN FailingGas
                              ELSE env.gas)
        sent_args == <<[value |-> value,
                        amount |-> IntOf(q.value.send_param.amount),
                        min_amount |-> IntOf(q.value.send_param.min_amount),
                        message_fee |-> message_fee]>>
        tx == send_transaction(env.send)
    IN  IF env.fail = "tx_params" THEN bridge_failed(amt, ErrOther, <<value>>, <<>>)
        ELSE IF g.kind = "raise" THEN bridge_failed(amt, g.error, <<value>>, <<>>)
        ELSE IF tx.kind = "raise"
        THEN bridge_failed(amt, tx.error, <<value>>, sent_args)
        ELSE
        LET ok == verify_tx(tx.value, env.wait).value
            confirmed == ok /\ tx.value # NONE
            gas_fee == IF confirmed THEN actual_gas_fee(confirmed, env, g.value)
                       ELSE g.value * env.gas_price
        IN  IF env.fail = "record"
            THEN bridge_failed(amt, ErrOther, <<value>>, sent_args)
            ELSE [kind |-> "return", value |-> ok, quoted |-> <<value>>,
                  sent |-> sent_args,
                  record |-> tx_data_fees(amt, ok, tx.value, gas_fee,
                                 total_fee(confirmed, env, g.value, message_fee),
                                 message_fee)]

\* lines 165-174 of bridge, with the outcome of the estimate (or the amount
\* asked for): the quote for the final amount, then the rest.
bridge_estimated(env, estimated) ==
    IF estimated.kind = "raise"
    THEN bridge_failed(env.amount, estimated.error, <<>>, <<>>)
    ELSE CHOOSE out \in
             {IF q.kind = "raise"
              THEN bridge_failed(estimated.value, q.error, <<>>, <<>>)
              ELSE bridge_quoted(env, estimated.value, q) :
                  q \in {final_quote(estimated.value, env)}} : TRUE

\* Stargate.bridge up to its db.add_transaction call: what it returns, the
\* record it hands to the ledger, the value of its quote for the final amount
\* and the send_transaction calls it made.
bridge(env) ==
    IF env.fail = "gas_price" THEN bridge_failed(env.amount, ErrOther, <<>>, <<>>)
    ELSE CHOOSE out \in
             {bridge_estimated(env, estimated) :
                  estimated \in
                      {IF env.amount = Nothing \/ env.include_fees
                       THEN _estimate_amount_for_full_amount_bridge(
                                env.amount, EstimateEnvOf(env))
                       ELSE Return(env.amount)}} : TRUE

\* Stargate.bridge calls made in one run of the model.
MaxBridgeCalls == 2

\* The steps of bridge's try block, in program order.
Steps == <<"gas_price", "eth_price", "balance", "estimate", "quote", "tx_params",
           "gas_estimate", "send", "verify", "receipt", "record">>

\* The step after `step` in the try block.
StepAfter(step) ==
    IF step = Steps[Len(Steps)] THEN "returned"
    ELSE Steps[(CHOOSE i \in 1..(Len(Steps) - 1) : Steps[i] = step) + 1]

\* The exception is swallowed where it was raised and the try block goes on.
Caught_swallowed(e) ==
    /\ pc' = StepAfter(pc)
    /\ exc' = exc

\* An exception leaves the try block for the outer handler (line 237).
Caught(e) ==
    /\ pc' = "except"
    /\ exc' = e

\* A step completes and control moves on.
Completed(step, next) ==
    /\ pc' = next
    /\ done' = done \cup {step}
    /\ exc' = exc

\* bridge is called: a new attempt on the same Stargate object.
BridgeCall ==
    /\ pc \in {"idle", "returned"}
    /\ calls < MaxBridgeCalls
    /\ calls' = calls + 1
    /\ \E amt \in {Nothing, Some(RequestedAmount)}, fees \in BOOLEAN :
           /\ amount' = amt
           /\ include_fees' = fees
    /\ pc' = "gas_price"
    /\ tx_hash' = NONE /\ success' = FALSE /\ receipt' = NONE /\ exc' = NONE
    /\ done' = {} /\ sent' = 0 /\ polls' = 0 /\ appends' = 0 /\ retval' = FALSE
    /\ saved' = FALSE
    /\ UNCHANGED <<outside, db, file>>

\* line 156: gas_price = await self.client.w3.eth.gas_price
ReadGasPrice ==
    /\ pc = "gas_price"
    /\ \/ Completed("gas_price", "eth_price")
       \/ Caught(ErrOther) /\ done' = done
    /\ UNCHANGED <<outside, calls, amount, include_fees, tx_hash, success, receipt,
                   sent, polls, appends, retval, saved, db, file>>

\* line 160: _get_eth_price never raises: the spot price, or the 3000.0
\* fallback on a non-200 answer or an exception.
GetEthPrice ==
    /\ pc = "eth_price"
    /\ Completed("eth_price", "balance")
    /\ UNCHANGED <<outside, calls, amount, include_fees, tx_hash, success, receipt,
                   sent, polls, appends, retval, saved, db, file>>

\* line 163: get_native_balance never raises (the balance, or False after its
\* retries); initial_balance is not read again.  lines 165-168 follow.
ReadBalance ==
    /\ pc = "balance"
    /\ Completed("balance",
                 IF amount = Nothing \/ include_fees THEN "estimate" ELSE "quote")
    /\ UNCHANGED <<outside, calls, amount, include_fees, tx_hash, success, receipt,
                   sent, polls, appends, retval, saved, db, file>>

\* lines 165-168
Estimate ==
    /\ pc = "estimate"
    /\ \E env \in EstimateEnvs :
           LET r == estimate_amount(amount, env) IN
           IF r.kind = "return"
           THEN amount' = r.value /\ Completed("estimate", "quote")
           ELSE amount' = amount /\ Caught(r.error) /\ done' = done
    /\ UNCHANGED <<outside, calls, include_fees, tx_hash, success, receipt,
                   sent, polls, appends, retval, saved, db, file>>

\* lines 172-176: _get_tx_data for the final amount
Quote ==
    /\ pc = "quote"
    /\ \/ Completed("quote", "tx_params")
       \/ Caught(QuoteError) /\ done' = done
    /\ UNCHANGED <<outside, calls, amount, include_fees, tx_hash, success, receipt,
                   sent, polls, appends, retval, saved, db, file>>

\* line 179
GetTxParams ==
    /\ pc = "tx_params"
    /\ \/ Completed("tx_params", "gas_estimate")
       \/ Caught(ErrOther) /\ done' = done
    /\ UNCHANGED <<outside, calls, amount, include_fees, tx_hash, success, receipt,
                   sent, polls, appends, retval, saved, db, file>>

\* lines 180-191
GasEstimate ==
    /\ pc = "gas_estimate"
    /\ \E node \in BridgeGasScripts :
           LET g == get_gas_estimate(node) IN
           IF g.kind = "return"
           THEN Completed("gas_estimate", "send")
           ELSE Caught(g.error) /\ done' = done
    /\ UNCHANGED <<outside, calls, amount, include_fees, tx_hash, success, receipt,
                   sent, polls, appends, retval, saved, db, file>>

\* send_transaction called again when it gave no hash.
Send_again_without_hash ==
    /\ pc = "send"
    /\ \E env \in SendEnvs :
           LET r == send_transaction(env) IN
           /\ sent' = sent + r.sent
           /\ IF r.kind = "return"
              THEN /\ tx_hash' = r.value
                   /\ IF r.value = NONE /\ sent < 2
                      THEN pc' = "send" /\ done' = done /\ exc' = exc
                      ELSE Completed("send", "verify")
              ELSE tx_hash' = tx_hash /\ Caught(r.error) /\ done' = done
    /\ UNCHANGED <<outside, calls, amount, include_fees, success, receipt,
                   polls, appends, retval, saved, db, file>>

\* line 194
Send ==
    /\ pc = "send"
    /\ \E env \in SendEnvs :
           LET r == send_transaction(env) IN
           /\ sent' = sent + r.sent
           /\ IF r.kind = "return"
              THEN tx_hash' = r.value /\ Completed("send", "verify")
              ELSE tx_hash' = tx_hash /\ Caught(r.error) /\ done' = done
    /\ UNCHANGED <<outside, calls, amount, include_fees, success, receipt,
                   polls, appends, retval, saved, db, file>>

\* line 195
Verify ==
    /\ pc = "verify"
    /\ \E wait \in WaitOutcomes :
           LET r == verify_tx(tx_hash, wait) IN
           /\ polls' = polls + r.polls
           /\ IF r.kind = "return"
              THEN success' = r.value /\ Completed("verify", "receipt")
              ELSE success' = success /\ Caught(r.error) /\ done' = done
    /\ UNCHANGED <<outside, calls, amount, include_fees, tx_hash, receipt,
                   sent, appends, retval, saved, db, file>>

\* lines 198-213: the receipt is fetched for the gas used only after a
\* confirmed transaction; a failure of that fetch is logged and absorbed.
Receipt ==
    /\ pc = "receipt"
    /\ IF success /\ tx_hash # NONE
       THEN receipt' \in {"gasUsed", "no_gasUsed", "raise"}
       ELSE receipt' = receipt
    /\ Completed("receipt", "record")
    /\ UNCHANGED <<outside, calls, amount, include_fees, tx_hash, success,
                   sent, polls, appends, retval, saved, db, file>>

\* The end of bridge returning what the ledger's append returned.
Record_returns_saved ==
    /\ pc = "record"
    /\ \/ /\ Caught(ErrOther)
          /\ UNCHANGED <<done, appends, retval, saved, db, file>>
       \/ \E save \in SaveOutcomes :
              LET r == add_transaction(db, file, Wallet,
                                       tx_data(amount, success, tx_hash), save) IN
              /\ appends' = appends + 1
              /\ db' = r.data
              /\ file' = r.file
              /\ saved' = (r.kind = "return" /\ r.value)
              /\ IF r.kind = "return"
                 THEN retval' = (success /\ r.value) /\ Completed("record", "returned")
                 ELSE retval' = retval /\ Caught(r.error) /\ done' = done
    /\ UNCHANGED <<outside, calls, amount, include_fees, tx_hash, success, receipt,
                   sent, polls>>

\* lines 215-236: tx_data is built, handed to the ledger, success is returned.
Record ==
    /\ pc = "record"
    /\ \/ /\ Caught(ErrOther)
          /\ UNCHANGED <<done, appends, retval, saved, db, file>>
       \/ \E save \in SaveOutcomes :
              LET r == add_transaction(db, file, Wallet,
                                       tx_data(amount, success, tx_hash), save) IN
              /\ appends' = appends + 1
              /\ db' = r.data
              /\ file' = r.file
              /\ saved' = (r.kind = "return" /\ r.value)
              /\ IF r.kind = "return"
                 THEN retval' = success /\ Completed("record", "returned")
                 ELSE retval' = retval /\ Caught(r.error) /\ done' = done
    /\ UNCHANGED <<outside, calls, amount, include_fees, tx_hash, success, receipt,
                   sent, polls>>

\* lines 237-253: the outer handler records the failed attempt, returns False.
Except ==
    /\ pc = "except"
    /\ \E save \in SaveOutcomes :
           LET r == add_transaction(db, file, Wallet, error_data(amount, exc), save) IN
           /\ appends' = appends + 1
           /\ db' = r.data
           /\ file' = r.file
           /\ saved' = (r.kind = "return" /\ r.value)
           /\ IF r.kind = "return"
              THEN retval' = FALSE /\ pc' = "returned"
              ELSE retval' = retval /\ pc' = "escaped"
    /\ UNCHANGED <<outside, calls, amount, include_fees, tx_hash, success, receipt,
                   exc, done, sent, polls>>

\* No bridge call has been made.
BridgeIdle ==
    /\ pc = "idle" /\ calls = 0 /\ amount = Nothing /\ include_fees = FALSE
    /\ tx_hash = NONE /\ success = FALSE /\ receipt = NONE /\ exc = NONE
    /\ done = {} /\ sent = 0 /\ polls = 0 /\ appends = 0 /\ retval = FALSE
    /\ saved = FALSE

\* db = Database() at import: the store is loaded from the ledger file.
BridgeInit ==
    /\ BridgeIdle
    /\ file \in InitialFiles
    /\ db = load_db(file)

ClientInit == call = [op |-> "none"]

\* auto_bridge has not been called.
SchedulerIdle ==
    /\ auPc = "idle"
    /\ args = [count |-> Nothing, delay_min |-> Nothing, delay_max |-> Nothing,
               bridge_pairs |-> <<>>]
    /\ count = 0 /\ delay_min = 0 /\ delay_max = 0 /\ bridge_pairs = <<>>
    /\ it = 0 /\ success_count = 0 /\ src_chain = NONE /\ dst_chain = NONE
    /\ idx = 0 /\ wallet_successes = 0 /\ iterations = 0 /\ sleeps = 0 /\ delay = 0
    /\ auExc = NONE /\ auResult = FALSE
    /\ ops = <<>>

Init == BridgeInit /\ ClientInit /\ SchedulerIdle /\ keys_txt = [exists |-> FALSE]

Next ==
    \/ BridgeCall
    \/ ReadGasPrice
    \/ GetEthPrice
    \/ ReadBalance
    \/ Estimate
    \/ Quote
    \/ GetTxParams
    \/ GasEstimate
    \/ Send
    \/ Verify
    \/ Receipt
    \/ Record
    \/ Except

Spec == Init /\ [][Next]_vars

(***************************************************************************)
(* SpecClient: any caller, any Client method, any input.                   *)
(***************************************************************************)

CallGetGasEstimate ==
    /\ call.op = "none"
    /\ \E node \in GasScripts :
            /\ call' = [op |-> "get_gas_estimate", in |-> node, out |-> get_gas_estimate(node)]
            /\ UNCHANGED <<bridgeVars, autoVars>>

CallVerifyTx ==
    /\ call.op = "none"
    /\ \E txh \in {NONE, TxHash}, wait \in WaitOutcomes :
            /\ call' = [op |-> "verify_tx", in |-> [tx_hash |-> txh, wait |-> wait],
                        out |-> verify_tx(txh, wait)]
            /\ UNCHANGED <<bridgeVars, autoVars>>

CallSendTransaction ==
    /\ call.op = "none"
    /\ \E env \in SendEnvs :
            /\ call' = [op |-> "send_transaction", in |-> env, out |-> send_transaction(env)]
            /\ UNCHANGED <<bridgeVars, autoVars>>

CallRetryOnFail ==
    /\ call.op = "none"
    /\ \E env \in RetryEnvs :
            /\ call' = [op |-> "retry_on_fail", in |-> env, out |-> retry_on_fail(env)]
            /\ UNCHANGED <<bridgeVars, autoVars>>

CallGetNativeBalance ==
    /\ call.op = "none"
    /\ \E env \in NativeBalanceEnvs :
            /\ call' = [op |-> "get_native_balance", in |-> env, out |-> get_native_balance(env)]
            /\ UNCHANGED <<bridgeVars, autoVars>>

CallGetMaxPriorityFee ==
    /\ call.op = "none"
    /\ \E env \in PriorityFeeEnvs :
        /\ call' = [op |-> "get_max_priority_fee_per_gas", in |-> env,
                    out |-> get_max_priority_fee_per_gas(env)]
        /\ UNCHANGED <<bridgeVars, autoVars>>

CallGetEip1559Params ==
    /\ call.op = "none"
    /\ \E env \in Eip1559Envs :
        /\ call' = [op |-> "_get_eip1559_params", in |-> env,
                    out |-> _get_eip1559_params(env)]
        /\ UNCHANGED <<bridgeVars, autoVars>>

CallEstimateAmount ==
    /\ call.op = "none"
    /\ \E env \in EstimateValueEnvs :
        /\ call' = [op |-> "_estimate_amount_for_full_amount_bridge", in |-> env,
                    out |-> _estimate_amount_for_full_amount_bridge(env.amount, env)]
        /\ UNCHANGED <<bridgeVars, autoVars>>

CallGetTxData ==
    /\ call.op = "none"
    /\ \E env \in TxDataEnvs :
        /\ call' = [op |-> "_get_tx_data", in |-> env, out |-> _get_tx_data(env)]
        /\ UNCHANGED <<bridgeVars, autoVars>>

\* The caller has the result; the client is ready for the next call.
CallDone ==
    /\ call.op # "none"
    /\ call' = [op |-> "none"]
    /\ UNCHANGED <<bridgeVars, autoVars>>

ClientNext ==
    \/ CallGetGasEstimate
    \/ CallVerifyTx
    \/ CallSendTransaction
    \/ CallRetryOnFail
    \/ CallGetNativeBalance
    \/ CallGetMaxPriorityFee
    \/ CallGetEip1559Params
    \/ CallGetTxData
    \/ CallEstimateAmount
    \/ CallDone

ClientSpecInit ==
    /\ call = [op |-> "none"]
    /\ pc = "idle" /\ calls = 0 /\ amount = Nothing /\ include_fees = FALSE
    /\ tx_hash = NONE /\ success = FALSE /\ receipt = NONE /\ exc = NONE
    /\ done = {} /\ sent = 0 /\ polls = 0 /\ appends = 0 /\ retval = FALSE
    /\ saved = FALSE
    /\ file = AbsentFile
    /\ db = DefaultDb
    /\ SchedulerIdle
    /\ keys_txt = [exists |-> FALSE]

SpecClient == ClientSpecInit /\ [][ClientNext]_vars

(***************************************************************************)
(* SpecValues: one Stargate.bridge call from start-up, its amounts and     *)
(* fees, for every input and network behaviour of a bounded set.           *)
(***************************************************************************)

\* bridge is called and returns: lines 154-253 in one step, the record
\* appended to the ledger.
CallBridge ==
    /\ call.op = "none"
    /\ \E env \in BridgeEnvs :
        \E out \in {bridge(env)}, save \in SaveOutcomes :
            LET r == add_transaction(db, file, Wallet, out.record, save) IN
            /\ call' = [op |-> "bridge", in |-> env, out |-> out]
            /\ db' = r.data
            /\ file' = r.file
            /\ saved' = r.value
            /\ UNCHANGED <<pc, calls, amount, include_fees, tx_hash, success, receipt,
                           exc, done, sent, polls, appends, retval, autoVars>>

ValuesNext == CallBridge

SpecValues == ClientSpecInit /\ [][ValuesNext]_vars

(***************************************************************************)
(* SpecLedger: the ledger from start-up on: Database() loads the file,     *)
(* then any caller appends any record for any wallet.                      *)
(***************************************************************************)

\* The largest amount of a record, and the add_transaction calls of one run.
MaxAmount == 2
MaxAppends == 3

\* The records callers hand to add_transaction: successful ones with the
\* smallest and the largest amount, a failed one, one whose amount is None,
\* one without a success key, one without an amount key.
LedgerRecords ==
    {[amount |-> Some(1), success |-> TRUE],
     [amount |-> Some(MaxAmount), success |-> TRUE],
     [amount |-> Some(MaxAmount), success |-> FALSE],
     [amount |-> Nothing, success |-> TRUE],
     [amount |-> Some(MaxAmount)],
     [success |-> TRUE]}

\* The files Database() may find when there is no store yet: none, a garbled
\* text, bytes that are no text, the file of an empty store.
StartupFiles == {AbsentFile, CorruptFile, UndecodableFile, FileOf(DefaultDb)}

\* No Database object yet.
Unloaded == [shape |-> "unloaded"]

\* db = Database(): __init__ loads the store; an exception of _load_db leaves
\* the constructor (and the import of core.database).
NewDatabase ==
    /\ call.op = "none"
    /\ db = Unloaded
    /\ LET r == _load_db(file) IN
       /\ call' = [op |-> "Database", in |-> file,
                   out |-> IF r.kind = "return" THEN Return(TRUE) ELSE r]
       /\ db' = IF r.kind = "return" THEN r.value ELSE db
    /\ UNCHANGED <<file, saved, appends>>
    /\ UNCHANGED <<pc, calls, amount, include_fees, tx_hash, success, receipt, exc,
                   done, sent, polls, retval, autoVars>>

\* db.add_transaction(wallet_address, tx_data); the call finds the ledger
\* file as the calls before it left it.
AddTransaction ==
    /\ db # Unloaded
    /\ appends < MaxAppends
    /\ \E w \in Wallets, tx \in LedgerRecords, save \in SaveOutcomes :
        LET r == add_transaction(db, file, w, tx, save) IN
        /\ call' = [op |-> "add_transaction",
                    in |-> [wallet |-> w, tx |-> tx, file |-> file],
                    out |-> IF r.kind = "return" THEN Return(r.value)
                            ELSE Raise(r.error)]
        /\ db' = r.data
        /\ file' = r.file
        /\ saved' = (r.kind = "return" /\ r.value)
        /\ appends' = appends + 1
    /\ UNCHANGED <<pc, calls, amount, include_fees, tx_hash, success, receipt, exc,
                   done, sent, polls, retval, autoVars>>

LedgerInit ==
    /\ call = [op |-> "none"]
    /\ BridgeIdle
    /\ file \in StartupFiles
    /\ db = Unloaded
    /\ SchedulerIdle
    /\ keys_txt = [exists |-> FALSE]

LedgerNext == NewDatabase \/ AddTransaction

SpecLedger == LedgerInit /\ [][LedgerNext]_vars

(***************************************************************************)
(* SpecHistory: modules/tx_history.py : show_tx_history, with the records   *)
(* bridge calls have written and the ledger's queries.                      *)
(***************************************************************************)

\* The add_transaction calls of one run, and time.time() at each of them.
MaxHistory == 3
ClockTimes == <<"1767225601.0", "1767225602.0", "1767225603.0", "1767225604.0">>
TimeAt(n) == ClockTimes[n]
TimeIndex(t) == CHOOSE i \in DOMAIN ClockTimes : ClockTimes[i] = t

\* transactions.sort(key=lambda x: x.get('timestamp', 0), reverse=True): the
\* newest first, records of one time in the order they had.
RECURSIVE insert_newest(_, _)
insert_newest(r, sorted) ==
    IF sorted = <<>> THEN <<r>>
    ELSE IF TimeIndex(r.timestamp) >= TimeIndex(Head(sorted).timestamp)
    THEN <<r>> \o sorted
    ELSE <<Head(sorted)>> \o insert_newest(r, Tail(sorted))
RECURSIVE sort_newest_first(_)
sort_newest_first(transactions) ==
    IF transactions = <<>> THEN <<>>
    ELSE insert_newest(Head(transactions), sort_newest_first(Tail(transactions)))

\* Database.get_wallet_transactions: the list the store holds, not a copy.
get_wallet_transactions(d, wallet_address) == d.transactions[wallet_address]

\* show_tx_history(wallet_address, limit): the lists of the wallet asked for,
\* or of every wallet of the key file when none is given, are fetched with
\* get_wallet_transactions and the non-empty ones sorted in place (line 153)
\* before they are printed.  The result is the store afterwards.
show_tx_history(d, wallet_address) ==
    [d EXCEPT !.transactions =
        [w \in Wallets |->
            IF wallet_address \in {NONE, w}
            THEN sort_newest_first(get_wallet_transactions(d, w))
            ELSE d.transactions[w]]]

\* A bridge call ends: its record, stamped with time.time(), is appended.
HistoryAppend ==
    /\ appends < MaxHistory
    /\ \E w \in Wallets, ok \in BOOLEAN, save \in SaveOutcomes :
        LET tx == [tx_data(Some(1), ok, IF ok THEN TxHash ELSE NONE)
                       EXCEPT !.timestamp = TimeAt(appends + 1)]
            r == add_transaction(db, file, w, tx, save)
        IN  /\ call' = [op |-> "add_transaction", in |-> [wallet |-> w, before |-> db],
                        out |-> r.value]
            /\ db' = r.data
            /\ file' = r.file
            /\ saved' = r.value
            /\ appends' = appends + 1
    /\ UNCHANGED <<pc, calls, amount, include_fees, tx_hash, success, receipt, exc,
                   done, sent, polls, retval, autoVars>>

\* db.get_wallet_transactions(address)
GetWalletTransactions ==
    /\ \E w \in Wallets :
        call' = [op |-> "get_wallet_transactions", in |-> [wallet |-> w, before |-> db],
                 out |-> get_wallet_transactions(db, w)]
    /\ UNCHANGED <<bridgeVars, autoVars>>

\* show_tx_history(wallet_address), which returns True.
ShowTxHistory ==
    /\ \E wallet_address \in {NONE} \cup Wallets :
        /\ call' = [op |-> "show_tx_history",
                    in |-> [wallet |-> wallet_address, before |-> db], out |-> TRUE]
        /\ db' = show_tx_history(db, wallet_address)
    /\ UNCHANGED <<pc, calls, amount, include_fees, tx_hash, success, receipt, exc,
                   done, sent, polls, appends, retval, saved, file, autoVars>>

HistoryNext == HistoryAppend \/ GetWalletTransactions \/ ShowTxHistory

SpecHistory == ClientSpecInit /\ [][HistoryNext]_vars

(***************************************************************************)
(* core/models/chain.py, core/constants.py : the networks                  *)
(***************************************************************************)

\* The names get_chain_by_name knows (it lower-cases its argument first;
\* the names used here are lower-case already).
ChainNames == {"arbitrum", "optimism", "base", "scroll", "linea", "mainnet"}

chain_id ==
    [arbitrum |-> 42161, optimism |-> 10, base |-> 8453, scroll |-> 534352,
     linea |-> 59144, mainnet |-> 1]

\* The keys of STARGATE_ETH_NATIVE_POOL_ADDRESSES.
STARGATE_ETH_NATIVE_POOL_ADDRESSES == {42161, 10, 59144, 8453, 534352}

ErrUnsupportedChain == "Unsupported chain"
ErrNoPool == "Chain is not supported for Stargate ETH bridging"
ErrBadKey == "Non-hexadecimal digit found"
ErrEmptyRange == "empty range for randrange()"

get_chain_by_name(name) ==
    IF name \in ChainNames
    THEN Return([name |-> name, chain_id |-> chain_id[name]])
    ELSE Raise(ErrUnsupportedChain)

\* Stargate.__init__: the source chain must have a native pool.
stargate_init(chain) ==
    IF chain.chain_id \notin STARGATE_ETH_NATIVE_POOL_ADDRESSES
    THEN Raise(ErrNoPool)
    ELSE Return(chain.name)

\* Client.__init__ derives the address from the key: from_key raises on a
\* string that is no private key.
ValidKeys == {"key1", "key2"}
client_init(private_key) ==
    IF private_key \in ValidKeys THEN Return(private_key) ELSE Raise(ErrBadKey)

(***************************************************************************)
(* modules/auto_bridger.py : auto_bridge, modules/bridger.py : bridge_eth  *)
(***************************************************************************)

AUTO_BRIDGE_COUNT == 5
AUTO_BRIDGE_DELAY_MIN == 1800
AUTO_BRIDGE_DELAY_MAX == 3600
AUTO_BRIDGE_PAIRS ==
    << <<"arbitrum", "optimism">>, <<"optimism", "base">>, <<"base", "linea">>,
       <<"linea", "scroll">>, <<"scroll", "arbitrum">> >>

\* The arguments auto_bridge is called with.
MaxCount == 2
MinDelay == 1
MaxDelay == 2
Counts == {Nothing} \cup {Some(n) : n \in 0..MaxCount}
DelayMins == {Nothing, Some(0), Some(MinDelay)}
DelayMaxs == {Nothing, Some(0), Some(MaxDelay)}
PairLists ==
    { <<>>,
      << <<"arbitrum", "base">> >>,
      << <<"mainnet", "arbitrum">> >>,
      << <<"optimism", "polygon">>, <<"base", "arbitrum">> >> }

\* data/private_keys.txt: missing, or its lines.
KeyFiles ==
    {[exists |-> FALSE]} \cup
    {[exists |-> TRUE, lines |-> l] :
        l \in {<<>>, <<"key1">>, <<"key1", "key2">>, <<"key1", "nokey">>}}

\* What get_native_balance(wei=False) gives bridge_eth: False when the ten
\* attempts of retry_on_fail all failed, or the balance in ether.
Balances == {"false", "low", "ok"}

\* Python's `x or default` on an Optional number: None and 0 are falsy.
OrDefault(x, default) == IF x = Nothing \/ x = Some(0) THEN default ELSE x[1]

\* random.randint(a, b): raises ValueError on an empty range.  Of a non-empty
\* range the two ends are drawn.
randint(a, b) == IF a > b THEN {Raise(ErrEmptyRange)} ELSE {Return(a), Return(b)}

\* An exception leaves auto_bridge, which has no handler.
AutoRaised(e) == auPc' = "raised" /\ auExc' = e

\* auto_bridge lines 40-52
AutoBridgeCall ==
    /\ auPc = "idle"
    /\ \E c \in Counts, lo \in DelayMins, hi \in DelayMaxs, ps \in PairLists :
        /\ args' = [count |-> c, delay_min |-> lo, delay_max |-> hi, bridge_pairs |-> ps]
        /\ count' = OrDefault(c, AUTO_BRIDGE_COUNT)
        /\ delay_min' = OrDefault(lo, AUTO_BRIDGE_DELAY_MIN)
        /\ delay_max' = OrDefault(hi, AUTO_BRIDGE_DELAY_MAX)
        /\ bridge_pairs' = IF ps = <<>> THEN AUTO_BRIDGE_PAIRS ELSE ps
    /\ IF bridge_pairs' = <<>>
       THEN auPc' = "returned" /\ auResult' = FALSE
       ELSE auPc' = "loop" /\ auResult' = auResult
    /\ it' = 0 /\ success_count' = 0
    /\ UNCHANGED <<call, ops, bridgeVars, src_chain, dst_chain, keys_txt, idx,
                   wallet_successes, iterations, sleeps, delay, auExc>>

\* auto_bridge lines 54-76: the pair of this iteration is drawn (the
\* percentage and the mode, drawn too, reach Stargate.bridge only) and
\* bridge_eth is called.
AutoIterate ==
    /\ auPc = "loop" /\ it < count
    /\ \E p \in 1..Len(bridge_pairs) :
        /\ src_chain' = bridge_pairs[p][1]
        /\ dst_chain' = bridge_pairs[p][2]
    /\ iterations' = iterations + 1
    /\ auPc' = "bridge_eth"
    /\ UNCHANGED <<call, ops, bridgeVars, args, count, delay_min, delay_max, bridge_pairs,
                   it, success_count, keys_txt, idx, wallet_successes, sleeps,
                   delay, auExc, auResult>>

\* auto_bridge lines 78-85, with `success` the result of bridge_eth.
AfterBridgeEth(result) ==
    /\ success_count' = IF result THEN success_count + 1 ELSE success_count
    /\ IF it < count - 1
       THEN auPc' = "sleep" /\ it' = it
       ELSE auPc' = "loop" /\ it' = it + 1

\* bridge_eth lines 47-75: the keys are read, the two chains looked up.
BridgeEthStart ==
    /\ auPc = "bridge_eth"
    /\ IF ~keys_txt.exists \/ keys_txt.lines = <<>>
       THEN /\ AfterBridgeEth(FALSE)
            /\ UNCHANGED <<idx, wallet_successes, auExc>>
       ELSE LET source_chain == get_chain_by_name(src_chain)
                destination_chain == get_chain_by_name(dst_chain)
            IN  IF source_chain.kind = "raise" \/ destination_chain.kind = "raise"
                THEN /\ AutoRaised(ErrUnsupportedChain)
                     /\ UNCHANGED <<it, success_count, idx, wallet_successes>>
                ELSE /\ auPc' = "wallet"
                     /\ idx' = 0 /\ wallet_successes' = 0
                     /\ UNCHANGED <<it, success_count, auExc>>
    /\ UNCHANGED <<call, ops, bridgeVars, args, count, delay_min, delay_max, bridge_pairs,
                   src_chain, dst_chain, keys_txt, iterations, sleeps, delay, auResult>>

\* bridge_eth lines 76-131, one wallet: the client is built, the balance
\* read, the orchestrator built and Stargate.bridge called.  The steps of
\* that call are those of Spec; here it is its result, a boolean.
\* delay_after is False: no sleep between the wallets.
ProcessWallet ==
    /\ auPc = "wallet" /\ idx < Len(keys_txt.lines)
    /\ LET client == client_init(keys_txt.lines[idx + 1])
           stargate == stargate_init(get_chain_by_name(src_chain).value)
       IN  IF client.kind = "raise"
           THEN /\ AutoRaised(client.error)
                /\ UNCHANGED <<idx, wallet_successes, calls, retval>>
           ELSE \E balance \in Balances :
                IF balance # "ok"
                THEN /\ idx' = idx + 1
                     /\ UNCHANGED <<auPc, auExc, wallet_successes, calls, retval>>
                ELSE IF stargate.kind = "raise"
                THEN /\ AutoRaised(stargate.error)
                     /\ UNCHANGED <<idx, wallet_successes, calls, retval>>
                ELSE \E bridge_result \in BOOLEAN :
                     /\ calls' = calls + 1
                     /\ retval' = bridge_result
                     /\ wallet_successes' =
                            IF bridge_result THEN wallet_successes + 1 ELSE wallet_successes
                     /\ idx' = idx + 1
                     /\ UNCHANGED <<auPc, auExc>>
    /\ UNCHANGED <<call, ops, pc, amount, include_fees, tx_hash, success, receipt, exc, done,
                   sent, polls, appends, saved, db, file,
                   args, count, delay_min, delay_max, bridge_pairs, it, success_count,
                   src_chain, dst_chain, keys_txt, iterations, sleeps, delay, auResult>>

\* bridge_eth lines 133-134, then auto_bridge lines 78-82.
BridgeEthReturn ==
    /\ auPc = "wallet" /\ idx = Len(keys_txt.lines)
    /\ AfterBridgeEth(wallet_successes > 0)
    /\ UNCHANGED <<call, ops, bridgeVars, args, count, delay_min, delay_max, bridge_pairs,
                   src_chain, dst_chain, keys_txt, idx, wallet_successes, iterations,
                   sleeps, delay, auExc, auResult>>

\* auto_bridge lines 83-85: sleep_pause([delay, delay]) sleeps delay seconds.
AutoSleep ==
    /\ auPc = "sleep"
    /\ \E d \in randint(delay_min, delay_max) :
        IF d.kind = "raise"
        THEN /\ AutoRaised(d.error)
             /\ UNCHANGED <<delay, sleeps, it>>
        ELSE /\ delay' = d.value
             /\ sleeps' = sleeps + 1
             /\ it' = it + 1
             /\ auPc' = "loop"
             /\ auExc' = auExc
    /\ UNCHANGED <<call, ops, bridgeVars, args, count, delay_min, delay_max, bridge_pairs,
                   success_count, src_chain, dst_chain, keys_txt, idx, wallet_successes,
                   iterations, auResult>>

\* auto_bridge lines 87-88
AutoReturn ==
    /\ auPc = "loop" /\ it >= count
    /\ auPc' = "returned"
    /\ auResult' = (success_count > 0)
    /\ UNCHANGED <<call, ops, bridgeVars, args, count, delay_min, delay_max, bridge_pairs,
                   it, success_count, src_chain, dst_chain, keys_txt, idx,
                   wallet_successes, iterations, sleeps, delay, auExc>>

AutoNext ==
    \/ AutoBridgeCall
    \/ AutoIterate
    \/ BridgeEthStart
    \/ ProcessWallet
    \/ BridgeEthReturn
    \/ AutoSleep
    \/ AutoReturn

AutoInit ==
    /\ call = [op |-> "none"]
    /\ pc = "idle" /\ calls = 0 /\ amount = Nothing /\ include_fees = FALSE
    /\ tx_hash = NONE /\ success = FALSE /\ receipt = NONE /\ exc = NONE
    /\ done = {} /\ sent = 0 /\ polls = 0 /\ appends = 0 /\ retval = FALSE
    /\ saved = FALSE
    /\ file = AbsentFile
    /\ db = DefaultDb
    /\ SchedulerIdle
    /\ keys_txt \in KeyFiles

SpecAuto == AutoInit /\ [][AutoNext]_vars

(***************************************************************************)
(* SpecWallets: one bridge_eth call, a step for each await of the          *)
(* coroutine.  ops lists the awaited calls as they start and return.       *)
(***************************************************************************)

\* config.py
WALLET_DELAY_RANGE == <<30, 100>>
AFTER_FAIL_DELAY_RANGE == <<10, 15>>
INCLUDE_FEES_IN_AMOUNT == TRUE
USE_FULL_BRIDGE == FALSE

\* line 97: the minimum viable balance, 0.001 ether.  The balances of
\* bridge_eth's wallets are counted in thousandths of an ether.
MIN_VIABLE_BALANCE == 1
MaxWalletBalance == 2

\* Client.address, derived from the key.
address(private_key) == IF private_key = "key1" THEN Wallet ELSE OtherWallet

\* What the node does on the balance read of one wallet: it answers at once,
\* after one failed query, or never.
WalletBalanceEnvs ==
    [fails : {0, 1, RETRIES}, balance : 0..MaxWalletBalance, wei : {FALSE},
     draws : {[n \in 1..RETRIES |-> "lo"]}]

\* What the network does on the bridge call of one wallet.
WalletBridgeEnvs ==
    [amount : {Nothing, Some(RequestedAmount)}, include_fees : BOOLEAN,
     fail : {"none", "quote"},
     gas_price : {GasPrice},
     est_gas : {GasOf(1)}, balance : {"ok"},
     fee : {MessageFee},
     gas : {GasOf(1)},
     send : {[params |-> "ok", gas |-> GasOf(1), sign |-> sign, raw |-> raw] :
                sign \in {"ok", "raise"}, raw \in {"ok", "raise"}},
     wait : {"status1", "status0"},
     used : {1},
     receipt : {"gasUsed"}]

\* An entry of ops: wallet idx's call of op starts ("call") or has returned
\* ("return") with result.
Op(wallet, op, at, result) == [wallet |-> wallet, op |-> op, at |-> at, result |-> result]

\* The wallet is skipped only when the balance is None.
balance_skips_none_only(balance) == balance = PyNone

\* lines 91-99: `balance is None`, then `balance <= 0.001`, where False
\* compares as 0.
balance_skips(balance) ==
    \/ balance = PyNone
    \/ IF balance.type = "bool" THEN ~balance.bool
       ELSE balance.ether_of_wei <= MIN_VIABLE_BALANCE

\* The variables bridge_eth leaves alone.
walletFrame == <<call, pc, tx_hash, success, receipt, exc, done, polls, count, delay_min,
                 delay_max, bridge_pairs, it, success_count, iterations, keys_txt>>

\* An exception leaves bridge_eth, which has no handler.
WalletRaised(e) == auPc' = "raised" /\ auExc' = e

\* bridge_eth is called: lines 47-75.
BridgeEthCall ==
    /\ auPc = "idle"
    /\ \E src \in {"arbitrum", "mainnet", "polygon"}, delay_after \in BOOLEAN,
          full_balance \in BOOLEAN :
        /\ args' = [delay_after |-> delay_after, full_balance |-> full_balance]
        /\ src_chain' = src
        /\ dst_chain' = "optimism"
        /\ IF ~keys_txt.exists \/ keys_txt.lines = <<>>
           THEN auPc' = "returned" /\ auExc' = auExc
           ELSE IF get_chain_by_name(src).kind = "raise"
           THEN WalletRaised(get_chain_by_name(src).error)
           ELSE auPc' = "wallet" /\ auExc' = auExc
    /\ auResult' = FALSE
    /\ idx' = 0 /\ wallet_successes' = 0
    /\ UNCHANGED <<walletFrame, ops, calls, amount, include_fees, sent, appends, retval,
                   saved, db, file, sleeps, delay>>

\* lines 76-90: the client of the next wallet is built and its balance asked
\* for.
WalletBalanceCall ==
    /\ auPc = "wallet" /\ idx < Len(keys_txt.lines)
    /\ LET client == client_init(keys_txt.lines[idx + 1]) IN
       IF client.kind = "raise"
       THEN WalletRaised(client.error) /\ ops' = ops
       ELSE /\ auPc' = "balance" /\ auExc' = auExc
            /\ ops' = Append(ops, Op(idx, "get_native_balance", "call", PyNone))
    /\ UNCHANGED <<walletFrame, args, src_chain, dst_chain, idx, wallet_successes, calls,
                   amount, include_fees, sent, appends, retval, saved, db, file, sleeps,
                   delay, auResult>>

\* lines 90-99: get_native_balance returns; a wallet without a viable balance
\* is skipped.
WalletBalanceReturn ==
    /\ auPc = "balance"
    /\ \E env \in WalletBalanceEnvs :
        \E balance \in {get_native_balance(env).value} :
            /\ ops' = Append(ops, Op(idx, "get_native_balance", "return", balance))
            /\ IF balance_skips(balance)
               THEN auPc' = "wallet" /\ idx' = idx + 1
               ELSE auPc' = "bridge" /\ idx' = idx
    /\ UNCHANGED <<walletFrame, args, src_chain, dst_chain, wallet_successes, calls,
                   amount, include_fees, sent, appends, retval, saved, db, file, sleeps,
                   delay, auExc, auResult>>

\* Stargate.bridge is called without being awaited: the loop goes on.
WalletBridgeCall_not_awaited ==
    /\ auPc = "bridge"
    /\ auPc' = "wallet" /\ idx' = idx + 1
    /\ calls' = calls + 1
    /\ ops' = Append(ops, Op(idx, "bridge", "call", PyNone))
    /\ UNCHANGED <<walletFrame, args, src_chain, dst_chain, wallet_successes, sent,
                   appends, retval, saved, db, file, sleeps, delay, auResult, auExc,
                   amount, include_fees>>

\* lines 102-116: the amount is chosen, the orchestrator built and
\* Stargate.bridge called.  The amount of a share of the balance is
\* RequestedAmount.
WalletBridgeCall ==
    /\ auPc = "bridge"
    /\ LET stargate == stargate_init(get_chain_by_name(src_chain).value) IN
       IF stargate.kind = "raise"
       THEN /\ WalletRaised(stargate.error)
            /\ UNCHANGED <<ops, calls, amount, include_fees>>
       ELSE /\ auPc' = "bridging" /\ auExc' = auExc
            /\ calls' = calls + 1
            /\ IF args.full_balance \/ USE_FULL_BRIDGE
               THEN amount' = Nothing /\ include_fees' = FALSE
               ELSE amount' = Some(RequestedAmount)
                    /\ include_fees' = INCLUDE_FEES_IN_AMOUNT
            /\ ops' = Append(ops, Op(idx, "bridge", "call", PyNone))
    /\ UNCHANGED <<walletFrame, args, src_chain, dst_chain, idx, wallet_successes, sent,
                   appends, retval, saved, db, file, sleeps, delay, auResult>>

\* lines 116-131: Stargate.bridge runs and returns, the record appended to
\* the ledger; the wallet is counted, and the next one follows at once or
\* after a pause.
WalletBridgeReturn ==
    /\ auPc = "bridging"
    /\ \E env \in {e \in WalletBridgeEnvs :
                      e.amount = amount /\ e.include_fees = include_fees} :
        \E out \in {bridge(env)}, save \in SaveOutcomes :
            \E r \in {add_transaction(db, file, address(keys_txt.lines[idx + 1]),
                                      out.record, save)} :
                /\ db' = r.data
                /\ file' = r.file
                /\ saved' = r.value
                /\ appends' = appends + 1
                /\ sent' = sent + Len(out.sent)
                /\ retval' = out.value
                /\ wallet_successes' =
                       IF out.value THEN wallet_successes + 1 ELSE wallet_successes
                /\ ops' = ops \o [n \in 1..Len(out.sent) |->
                                     Op(idx, "send_transaction", "return", PyNone)]
                              \o <<Op(idx, "add_transaction", "return", PyBool(r.value)),
                                   Op(idx, "bridge", "return", PyBool(out.value))>>
    /\ IF args.delay_after /\ idx < Len(keys_txt.lines) - 1
       THEN auPc' = "sleep" /\ idx' = idx
       ELSE auPc' = "wallet" /\ idx' = idx + 1
    /\ UNCHANGED <<walletFrame, args, src_chain, dst_chain, calls, amount, include_fees,
                   sleeps, delay, auExc, auResult>>

\* line 131: the pause between two wallets.
WalletSleep ==
    /\ auPc = "sleep"
    /\ \E draw \in {"lo", "hi"} :
        delay' = sleep_pause(IF retval THEN WALLET_DELAY_RANGE
                             ELSE AFTER_FAIL_DELAY_RANGE, draw)
    /\ sleeps' = sleeps + 1
    /\ ops' = ops \o <<Op(idx, "sleep_pause", "call", PyNone),
                       Op(idx, "sleep_pause", "return", PyNone)>>
    /\ auPc' = "wallet" /\ idx' = idx + 1
    /\ UNCHANGED <<walletFrame, args, src_chain, dst_chain, wallet_successes, calls,
                   amount, include_fees, sent, appends, retval, saved, db, file, auExc,
                   auResult>>

\* lines 133-134
BridgeEthDone ==
    /\ auPc = "wallet" /\ idx = Len(keys_txt.lines)
    /\ auPc' = "returned"
    /\ auResult' = (wallet_successes > 0)
    /\ UNCHANGED <<walletFrame, args, src_chain, dst_chain, idx, wallet_successes, calls,
                   amount, include_fees, sent, appends, retval, saved, db, file, sleeps,
                   delay, auExc, ops>>

WalletsNext ==
    \/ BridgeEthCall
    \/ WalletBalanceCall
    \/ WalletBalanceReturn
    \/ WalletBridgeCall
    \/ WalletBridgeReturn
    \/ WalletSleep
    \/ BridgeEthDone

SpecWallets == AutoInit /\ [][WalletsNext]_vars

(***************************************************************************)
(* Claims about Stargate.bridge, checked under Spec.                       *)
(***************************************************************************)

\* The record of the current attempt, as bridge hands it to the ledger.
AttemptRecord ==
    IF exc # NONE THEN error_data(amount, exc) ELSE tx_data(amount, success, tx_hash)

\* The wallet's list in the store.
Recorded == db.transactions[Wallet]

\* C1 as stated: bridge returns False whenever an exception was raised in it,
\* the one raised by the fetch of the receipt (line 203) included.
C1_FalseAfterAnyException ==
    (pc = "returned" /\ (exc # NONE \/ receipt = "raise")) => retval = FALSE

\* C1 as amended: no exception escapes bridge; it returns a boolean, False
\* whenever an exception reached its outer handler, and otherwise the outcome
\* of the confirmation, also when the fetch of the receipt raised.
C1_NoExceptionEscapes ==
    /\ pc # "escaped"
    /\ pc = "returned" =>
           /\ retval \in BOOLEAN
           /\ exc # NONE => retval = FALSE
           /\ exc = NONE => retval = success

\* Gas estimation for the final amount ran out of retries on reorg errors; the
\* handler recorded the attempt and bridge returned False.
C1_Witness ==
    /\ pc = "returned"
    /\ exc = ErrReorg
    /\ "tx_params" \in done
    /\ appends = 1
    /\ retval = FALSE

StepsBefore(step) ==
    {Steps[i] : i \in {j \in 1..Len(Steps) :
        \E k \in (j + 1)..Len(Steps) : Steps[k] = step}}

\* C3 as stated: a transaction is sent only after the quote and the gas
\* estimate for the final amount, confirmation is awaited only after
\* submission, and the ledger record is written only after confirmation has
\* returned.
C3_RecordOnlyAfterConfirmation ==
    /\ sent > 0 => {"quote", "gas_estimate"} \subseteq done
    /\ "verify" \in done => "send" \in done
    /\ appends > 0 => "verify" \in done

\* C3 as amended: the steps of an attempt complete only in program order
\* (the optional full-balance estimation, the quote for the final amount, the
\* gas estimate, submission, confirmation, the record); a transaction is sent
\* only after the quote and the gas estimate succeeded, a receipt is awaited
\* only for a submitted transaction, and the record of a path without an
\* exception is written only after confirmation has returned.  The failed
\* record of an exception path is written from wherever the exception was
\* raised, and nothing is sent after it.
C3_StepsInOrder ==
    /\ \A s \in done : StepsBefore(s) \ {"estimate"} \subseteq done
    /\ ("quote" \in done /\ include_fees) => "estimate" \in done
    /\ "quote" \in done => amount # Nothing
    /\ sent > 0 => {"quote", "tx_params", "gas_estimate"} \subseteq done
    /\ sent <= 1
    /\ polls > 0 => (sent = 1 /\ tx_hash # NONE /\ "send" \in done)
    /\ (appends > 0 /\ exc = NONE) => {"send", "verify", "receipt"} \subseteq done
    /\ (appends > 0 /\ exc # NONE) => Recorded = <<>> \/ Recorded[Len(Recorded)].error # NONE
    /\ pc = "except" => exc # NONE

\* A confirmed transfer: estimated, quoted, sent, confirmed, then recorded.
C3_Witness ==
    /\ pc = "returned"
    /\ done = {Steps[i] : i \in 1..Len(Steps)}
    /\ sent = 1
    /\ polls = 1
    /\ success
    /\ Len(Recorded) = calls
    /\ Recorded[calls] = tx_data(amount, TRUE, TxHash)

(***************************************************************************)
(* Claims about the scheduler, checked under SpecAuto.                     *)
(***************************************************************************)

\* The exceptions bridge_eth lets out.
BridgeEthErrors == {ErrUnsupportedChain, ErrNoPool, ErrBadKey}

\* C4: no exception from a bridge attempt reaches the scheduler: in every
\* iteration of auto_bridge the call to bridge_eth returns and does not
\* raise, also when a network of the pair is unsupported or the client or
\* the orchestrator cannot be built.  The code lets the ValueError of
\* get_chain_by_name, of Stargate.__init__ and of Client.__init__ through.
C4_BridgeEthNeverRaises ==
    auExc \notin BridgeEthErrors

\* The count the caller asked for: the configured one when none was given.
RequestedCount == IF args.count = Nothing THEN AUTO_BRIDGE_COUNT ELSE args.count[1]

\* C5: auto_bridge performs exactly `count` iterations however many of them
\* fail, and returns true iff at least one iteration succeeded.  The code
\* leaves the loop with the exception of C4, and runs the configured number
\* of iterations for a count of 0.
C5_ExactlyCountIterations ==
    auPc \in {"returned", "raised"} =>
        /\ auPc = "returned"
        /\ iterations = RequestedCount
        /\ auResult = (success_count > 0)

\* The delays the caller asked for: the configured ones when none was given.
RequestedDelayMin ==
    IF args.delay_min = Nothing THEN AUTO_BRIDGE_DELAY_MIN ELSE args.delay_min[1]
RequestedDelayMax ==
    IF args.delay_max = Nothing THEN AUTO_BRIDGE_DELAY_MAX ELSE args.delay_max[1]

\* C6: auto_bridge sleeps exactly once between two consecutive iterations
\* and never after the last, each time for a duration d with
\* delayMin <= d <= delayMax for the values the caller supplied, a supplied
\* 0 included.  The code replaces a supplied 0 by the configured value, and
\* then sleeps longer than delayMax or fails on the empty range.
C6_SleepWithinSuppliedRange ==
    (RequestedDelayMin <= RequestedDelayMax) =>
        /\ auExc # ErrEmptyRange
        /\ sleeps > 0 => (RequestedDelayMin <= delay /\ delay <= RequestedDelayMax)
        /\ auPc = "loop" /\ it < count => sleeps = iterations
        /\ auPc = "returned" /\ iterations > 0 => sleeps = iterations - 1

(***************************************************************************)
(* Claims about the Chain Client, checked under SpecClient.                *)
(***************************************************************************)

\* The steps of send_transaction before send_raw_transaction all succeed.
SendPrepared(env) ==
    /\ env.params = "ok"
    /\ get_gas_estimate(env.gas).kind = "return"
    /\ env.sign = "ok"

\* C7 as stated: send_transaction never raises, and returns None whenever
\* composing the parameters, estimating gas, signing or sending fails.
C7_AnyFailureIsNull ==
    call.op = "send_transaction" =>
        /\ call.out.kind = "return"
        /\ (~SendPrepared(call.in) \/ call.in.raw = "raise") => call.out.value = NONE

\* C7 as amended: send_transaction returns None without raising exactly when
\* send_raw_transaction fails; when get_tx_params, gas estimation or signing
\* fails it raises that error and sends nothing; otherwise it returns the hash.
C7_OnlySendFailureIsNull ==
    call.op = "send_transaction" =>
        /\ (SendPrepared(call.in) /\ call.in.raw = "raise")
               => (call.out.kind = "return" /\ call.out.value = NONE)
        /\ (SendPrepared(call.in) /\ call.in.raw = "ok")
               => (call.out.kind = "return" /\ call.out.value = TxHash)
        /\ ~SendPrepared(call.in)
               => (call.out.kind = "raise" /\ call.out.sent = 0)

\* send_raw_transaction failed after the parameters, the gas estimate and the
\* signature succeeded, and the caller got None.
C7_Witness ==
    /\ call.op = "send_transaction"
    /\ SendPrepared(call.in)
    /\ call.in.raw = "raise"
    /\ call.out = [kind |-> "return", value |-> NONE, sent |-> 1]

\* C8: verify_tx with a None hash returns False without polling for a receipt.
C8_NullHashNoPoll ==
    (call.op = "verify_tx" /\ call.in.tx_hash = NONE) =>
        /\ call.out.kind = "return"
        /\ call.out.value = FALSE
        /\ call.out.polls = 0

\* verify_tx was called with None while the node would have had a successful
\* receipt to give.
C8_Witness ==
    /\ call.op = "verify_tx"
    /\ call.in.tx_hash = NONE
    /\ call.in.wait = "status1"
    /\ call.out.value = FALSE

\* C9: verify_tx never raises, and returns True exactly when a receipt was
\* obtained within the timeout and its status is 1.
C9_TrueIffStatusOne ==
    call.op = "verify_tx" =>
        /\ call.out.kind = "return"
        /\ call.out.value \in BOOLEAN
        /\ call.out.value = TRUE <=>
               (call.in.tx_hash # NONE /\ call.in.wait = "status1")

\* A receipt without a status field was obtained for a real hash: False.
C9_Witness ==
    /\ call.op = "verify_tx"
    /\ call.in.tx_hash = TxHash
    /\ call.in.wait = "nostatus"
    /\ call.out = [kind |-> "return", value |-> FALSE, polls |-> 1]

\* The first k answers of the node are reorg errors and answer k + 1 is a value.
ReorgsThenSuccess(node, k) ==
    /\ \A j \in 1..k : ~node[j].ok /\ IsReorg(node[j].error)
    /\ node[k + 1].ok

\* C10: reorg errors on the first k <= 2 attempts, then a success: the call
\* returns the value of that successful attempt and does not raise.
C10_ReorgThenSuccess ==
    call.op = "get_gas_estimate" =>
        \A k \in 0..2 :
            ReorgsThenSuccess(call.in, k) =>
                /\ call.out.kind = "return"
                /\ call.out.value = call.in[k + 1].gas
                /\ call.out.calls = k + 1

\* Two reorg errors, then a value that differs from the fourth answer: the
\* third attempt's value is returned.
C10_Witness ==
    /\ call.op = "get_gas_estimate"
    /\ ReorgsThenSuccess(call.in, 2)
    /\ call.in[4].ok
    /\ call.in[4].gas # call.in[3].gas
    /\ call.out.kind = "return"
    /\ call.out.value = call.in[3].gas

\* The first k answers of the node are reorg errors and answer k + 1 is an
\* error of another class.
ReorgsThenOtherError(node, k) ==
    /\ \A j \in 1..k : ~node[j].ok /\ IsReorg(node[j].error)
    /\ ~node[k + 1].ok /\ ~IsReorg(node[k + 1].error)

\* C11: get_gas_estimate does not retry an error that is not of the reorg
\* class: the first such error is raised to the caller at once, with no pause
\* after it and no further estimate_gas call.
C11_OtherErrorNotRetried ==
    call.op = "get_gas_estimate" =>
        \A k \in 0..GAS_RETRIES :
            ReorgsThenOtherError(call.in, k) =>
                /\ call.out.kind = "raise"
                /\ call.out.error = call.in[k + 1].error
                /\ call.out.calls = k + 1
                /\ call.out.sleeps = k

\* A reorg error, then another error, while the node would have answered the
\* third call: the second error is raised after two calls and one pause.
C11_Witness ==
    /\ call.op = "get_gas_estimate"
    /\ ReorgsThenOtherError(call.in, 1)
    /\ call.in[3].ok
    /\ call.out = [kind |-> "raise", error |-> ErrOther, calls |-> 2, sleeps |-> 1]

\* C12: get_gas_estimate makes at most four estimate_gas calls; after three
\* reorg errors in a row it makes exactly one more call, outside the try, and
\* returns its value or raises its error, of whatever class.
C12_BoundedWithFinalAttempt ==
    call.op = "get_gas_estimate" =>
        /\ call.out.calls <= GAS_RETRIES + 1
        /\ (\A j \in 1..GAS_RETRIES : ~call.in[j].ok /\ IsReorg(call.in[j].error)) =>
            LET last == call.in[GAS_RETRIES + 1] IN
            /\ call.out.calls = GAS_RETRIES + 1
            /\ call.out.sleeps = GAS_RETRIES
            /\ last.ok => call.out.kind = "return" /\ call.out.value = last.gas
            /\ ~last.ok => call.out.kind = "raise" /\ call.out.error = last.error

\* Four reorg errors in a row: the fourth one is raised.
C12_Witness ==
    /\ call.op = "get_gas_estimate"
    /\ \A j \in 1..(GAS_RETRIES + 1) : ~call.in[j].ok /\ IsReorg(call.in[j].error)
    /\ call.out = [kind |-> "raise", error |-> ErrReorg, calls |-> 4, sleeps |-> 3]

(***************************************************************************)
(* Claims about the Retry Wrapper, checked under SpecClient.               *)
(***************************************************************************)

\* C13: get_native_balance returns None if all of its attempts fail, every
\* balance query having raised.  The wrapper returns False there.
C13_NullWhenAllFail ==
    (call.op = "get_native_balance" /\ call.in.fails = RETRIES) =>
        call.out.value = PyNone

\* The attempts before attempt k all returned None or False.
FailedBefore(env, k) ==
    \A j \in 1..(k - 1) : env.script[j].kind = "return" /\ IsFailure(env.script[j].value)

\* C14: when the function returns None or False on every attempt, the
\* wrapper calls it exactly `tries` times and then returns False.
C14_AllFailGivesFalse ==
    (call.op = "retry_on_fail" /\ FailedBefore(call.in, call.in.tries + 1)) =>
        /\ call.out.kind = "return"
        /\ call.out.value = PyBool(FALSE)
        /\ call.out.calls = call.in.tries

\* Three attempts, None and False among their results.
C14_Witness ==
    /\ call.op = "retry_on_fail"
    /\ call.in.tries = MaxTries
    /\ FailedBefore(call.in, MaxTries + 1)
    /\ \E j, k \in 1..MaxTries :
        call.in.script[j].value = PyNone /\ call.in.script[k].value = PyBool(FALSE)
    /\ call.out.value = PyBool(FALSE)
    /\ call.out.calls = MaxTries

\* C15: the wrapper returns the result of the first attempt whose result is
\* neither None nor False, and does not call the function again after it.
C15_FirstGoodResult ==
    call.op = "retry_on_fail" =>
        \A k \in 1..call.in.tries :
            (/\ FailedBefore(call.in, k)
             /\ call.in.script[k].kind = "return"
             /\ ~IsFailure(call.in.script[k].value)) =>
                /\ call.out.kind = "return"
                /\ call.out.value = call.in.script[k].value
                /\ call.out.calls = k

\* A failure, then 0, which is falsy but neither None nor False, then
\* another result: 0 is returned after two calls.
C15_Witness ==
    /\ call.op = "retry_on_fail"
    /\ call.in.tries = 3
    /\ FailedBefore(call.in, 2)
    /\ call.in.script[2] = Return(PyInt(0))
    /\ call.in.script[3] = Return(PyInt(1))
    /\ call.out.value = PyInt(0)
    /\ call.out.calls = 2

\* C16: the wrapper does not catch exceptions: when the function raises on
\* attempt k the exception reaches the caller at once, with no sleep after
\* it and no attempt k + 1.
C16_ExceptionPropagates ==
    call.op = "retry_on_fail" =>
        \A k \in 1..call.in.tries :
            (FailedBefore(call.in, k) /\ call.in.script[k].kind = "raise") =>
                /\ call.out.kind = "raise"
                /\ call.out.error = call.in.script[k].error
                /\ call.out.calls = k
                /\ Len(call.out.slept) = k - 1

\* A failure, then an exception, with an attempt left that would succeed.
C16_Witness ==
    /\ call.op = "retry_on_fail"
    /\ call.in.tries = 3
    /\ FailedBefore(call.in, 2)
    /\ call.in.script[2].kind = "raise"
    /\ call.in.script[3] = Return(PyBool(TRUE))
    /\ call.out.kind = "raise"
    /\ call.out.calls = 2
    /\ Len(call.out.slept) = 1

\* C17: the wrapper sleeps once after each failed attempt but the last: a run
\* that ends at attempt k, with a good result at k or with k = tries and
\* every attempt failed, has slept exactly k - 1 times, each time for a
\* duration within the delay range.
C17_SleepsBetweenAttempts ==
    call.op = "retry_on_fail" =>
        \A k \in 1..call.in.tries :
            (/\ FailedBefore(call.in, k)
             /\ call.in.script[k].kind = "return"
             /\ (~IsFailure(call.in.script[k].value) \/ k = call.in.tries)) =>
                /\ Len(call.out.slept) = k - 1
                /\ \A n \in 1..Len(call.out.slept) :
                    /\ RetryDelay(call.in.retry_delay)[1] <= call.out.slept[n]
                    /\ call.out.slept[n] <= RetryDelay(call.in.retry_delay)[2]

\* Three failed attempts with the default range: two sleeps, of 5 and of 10
\* seconds, none after the third attempt.
C17_Witness ==
    /\ call.op = "retry_on_fail"
    /\ call.in.tries = 3
    /\ FailedBefore(call.in, 4)
    /\ call.in.retry_delay = <<>>
    /\ call.out.slept = <<5, 10>>

(***************************************************************************)
(* Claims about the Fee Estimator, checked under SpecClient.               *)
(***************************************************************************)

\* The indexes of the block's transactions that carry maxPriorityFeePerGas.
Sampled(txs) == {n \in 1..Len(txs) : txs[n].kind = "eip1559"}

\* v is the element at index m (from 0) of the sorted fees of the sampled
\* transactions: at most m of them are below v, more than m are at most v.
IsSortedElement(txs, m, v) ==
    /\ \E n \in Sampled(txs) : txs[n].fee = v
    /\ Cardinality({n \in Sampled(txs) : txs[n].fee < v}) <= m
    /\ Cardinality({n \in Sampled(txs) : txs[n].fee <= v}) > m

\* C18: for every non-empty list of priority-fee samples, of odd or even
\* length, the chosen fee is the element at index length // 2 of the sorted
\* list (3 for the samples 1, 2, 3, 4), never the mean of two elements.
C18_MiddleElementOfSorted ==
    (/\ call.op = "get_max_priority_fee_per_gas"
     /\ call.in.count_ok
     /\ Sampled(call.in.txs) # {}) =>
        /\ call.out.kind = "return"
        /\ IsSortedElement(call.in.txs, Cardinality(Sampled(call.in.txs)) \div 2,
                           call.out.value)

\* The samples 4, 1, 3, 2, in this order: the chosen fee is 3.
C18_Witness ==
    /\ call.op = "get_max_priority_fee_per_gas"
    /\ call.in.count_ok
    /\ fee_samples(call.in.txs, 1) = <<4, 1, 3, 2>>
    /\ call.out = Return(3)

\* C19: transactions without maxPriorityFeePerGas and transactions whose
\* fetch fails are skipped; with no sample the node's suggested fee is used,
\* and 1.5 gwei when that call fails; no such failure makes the call raise.
C19_FallbackChain ==
    (call.op = "get_max_priority_fee_per_gas" /\ call.in.count_ok) =>
        /\ call.out.kind = "return"
        /\ Sampled(call.in.txs) # {} =>
               \E n \in Sampled(call.in.txs) : call.out.value = call.in.txs[n].fee
        /\ (Sampled(call.in.txs) = {} /\ call.in.suggested.ok) =>
               call.out.value = call.in.suggested.fee
        /\ (Sampled(call.in.txs) = {} /\ ~call.in.suggested.ok) =>
               call.out.value = 1500000000

\* A block of one transaction that cannot be fetched and one without the
\* field, and a node that fails to suggest a fee: 1.5 gwei.
C19_Witness ==
    /\ call.op = "get_max_priority_fee_per_gas"
    /\ call.in.count_ok
    /\ call.in.txs = <<[kind |-> "error"], [kind |-> "legacy"]>>
    /\ ~call.in.suggested.ok
    /\ call.out = Return(1500000000)

\* floor(base_fee * 1.2) + priority_fee, in exact arithmetic.
ExactMaxFee(base_fee, priority_fee) ==
    Decimal(NatAdd(NatDivMod(Norm(MulSmall(FromDecimal(base_fee), 6, 0)), 5).q,
                   NatOf(priority_fee)))

\* C20: for every non-negative integer base fee and the chosen priority fee
\* the max fee is floor(baseFee * 1.2) + priorityFee exactly (13.5 gwei for
\* a base fee of 10 gwei and the default of 1.5 gwei).  The code multiplies
\* in floating point, which is off by one from 3752999689475414 wei on.
C20_MaxFeeExact ==
    (call.op = "_get_eip1559_params" /\ call.out.kind = "return") =>
        call.out.value.max_fee_per_gas =
            ExactMaxFee(call.in.base_fee, call.out.value.max_priority_fee_per_gas)

(***************************************************************************)
(* Claims: the orchestrator's amounts and fees (core/stargate.py)           *)
(***************************************************************************)

\* a <= b for two naturals.
RECURSIVE NatLeq(_, _)
NatLeq(a, b) ==
    IF Len(a) # Len(b) THEN Len(a) < Len(b)
    ELSE IF a = <<>> THEN TRUE
    ELSE IF a[Len(a)] # b[Len(b)] THEN a[Len(a)] < b[Len(b)]
    ELSE NatLeq(SubSeq(a, 1, Len(a) - 1), SubSeq(b, 1, Len(b) - 1))

\* floor(amount * (100 - slippage) / 100), in exact arithmetic.
ExactMinAmount(amt) ==
    Decimal(NatDivMod(Norm(MulSmall(FromDecimal(amt), 100 - MAX_SLIPPAGE, 0)), 100).q)

\* C21: for every non-negative wei amount the send parameters _get_tx_data
\* builds carry minAmountAfterSlippage = floor(amount * (100 - slippage) / 100),
\* and that value is at most the amount.
C21_MinAmountIsFloor ==
    (call.op = "_get_tx_data" /\ call.out.kind = "return") =>
        /\ call.out.value.send_param.min_amount = ExactMinAmount(call.in.amount)
        /\ NatLeq(FromDecimal(call.out.value.send_param.min_amount),
                  FromDecimal(call.in.amount))

\* C22: when bridge runs the full-balance estimate and quotes again with the
\* amount it returned, the value to send (that amount plus the fee of the new
\* quote) never exceeds the wallet's balance.
C22_ValueWithinBalance ==
    (/\ call.op = "bridge"
     /\ call.in.amount = Nothing \/ call.in.include_fees
     /\ call.out.quoted # <<>>)
        => call.out.quoted[1] <= Balance

C24_FreshFeeSubmitted ==
    (call.op = "bridge" /\ call.out.sent # <<>>) =>
        /\ Len(call.out.sent) = 1
        /\ call.out.sent[1].amount = call.out.record.amount[1]
        /\ call.out.sent[1].message_fee = call.in.fee
        /\ call.out.sent[1].value = call.out.record.amount[1] + call.in.fee

\* A full-balance bridge whose second quote costs more than the first.
C24_Witness ==
    /\ call.op = "bridge"
    /\ call.in.amount = Nothing
    /\ call.in.fee = MessageFee + FeeRise
    /\ call.out.value = TRUE
    /\ call.out.sent # <<>>
    /\ call.out.sent[1].value = call.out.sent[1].amount + MessageFee + FeeRise
    /\ call.out.record.message_fee_wei = Some(MessageFee + FeeRise)

\* C25: the gas fee of the record is the gas the transaction used times the
\* gas price when there is a hash and the transaction is confirmed, and the
\* estimate made before the submission otherwise (for a node whose receipts
\* carry gasUsed).
C25_RecordedGasFee ==
    (/\ call.op = "bridge"
     /\ call.out.record.error = NONE
     /\ call.in.receipt # "no_gasUsed") =>
        call.out.record.gas_fee =
            IF call.out.record.tx_hash # NONE /\ call.out.record.success
            THEN Some(call.in.used * call.in.gas_price)
            ELSE Some(call.in.gas[1].gas * call.in.gas_price)

(***************************************************************************)
(* Claims: the ledger (core/database.py)                                    *)
(***************************************************************************)

\* The records of all wallets, one wallet after the other.
RECURSIVE AllRecords(_)
AllRecords(ws) ==
    IF ws = {} THEN <<>>
    ELSE LET w == CHOOSE w \in ws : TRUE
         IN  db.transactions[w] \o AllRecords(ws \ {w})

\* The sum of amount over the records with success = true.
RECURSIVE SumOfSuccessful(_)
SumOfSuccessful(records) ==
    IF records = <<>> THEN 0
    ELSE LET r == Head(records)
             counts == /\ "success" \in DOMAIN r /\ r.success
                       /\ "amount" \in DOMAIN r /\ r.amount # Nothing
         IN  (IF counts THEN r.amount[1] ELSE 0) + SumOfSuccessful(Tail(records))

\* C26: from an empty store on, total_transactions is the number of records
\* held across all wallets, and N append calls have raised it by N.
C26_CounterIsRecordCount ==
    db # Unloaded =>
        /\ db.total_transactions = Len(AllRecords(Wallets))
        /\ db.total_transactions = appends

\* Three appends, for two wallets, one of them of a failed attempt and one
\* with a failed write.
C26_Witness ==
    /\ db # Unloaded
    /\ appends = 3
    /\ db.total_transactions = 3
    /\ Len(db.transactions[Wallet]) = 2
    /\ Len(db.transactions[OtherWallet]) = 1
    /\ "success" \in DOMAIN db.transactions[Wallet][1]
    /\ ~db.transactions[Wallet][1].success
    /\ file # FileOf(db)

\* C27: from an empty store on, total_value_bridged is the sum of amount over
\* the stored records with success = true; a record with success = false or
\* without a success field adds nothing.
C27_ValueIsSumOfSuccessful ==
    db # Unloaded => db.total_value_bridged = SumOfSuccessful(AllRecords(Wallets))

\* A successful record, then a failed one and one without a success field.
C27_Witness ==
    /\ db # Unloaded
    /\ Len(db.transactions[Wallet]) = 3
    /\ db.transactions[Wallet][1] = [amount |-> Some(1), success |-> TRUE] @@ [timestamp |-> Now]
    /\ db.transactions[Wallet][2] = [amount |-> Some(MaxAmount), success |-> FALSE] @@ [timestamp |-> Now]
    /\ "success" \notin DOMAIN db.transactions[Wallet][3]
    /\ db.total_value_bridged = 1

\* C28: after appends that end in a successful save, loading the ledger file
\* gives the in-memory store: the same records for the same wallets, in the
\* same order, and the same counters.
C28_RoundTrip ==
    (db # Unloaded /\ saved) => _load_db(file) = Return(db)

\* Two wallets, one with two different records, written and read back.
C28_Witness ==
    /\ db # Unloaded /\ saved
    /\ Len(db.transactions[Wallet]) = 2
    /\ Len(db.transactions[OtherWallet]) = 1
    /\ db.transactions[Wallet][1] # db.transactions[Wallet][2]
    /\ "amount" \in DOMAIN db.transactions[Wallet][1]
    /\ db.transactions[Wallet][1].amount = Nothing
    /\ db.total_value_bridged > 0
    /\ json_load(file.text).transactions[Wallet][2] = db.transactions[Wallet][2]

\* C29: when the ledger file is absent or its content is corrupt (it does not
\* parse as JSON), the constructor returns, with the empty default store.
C29_StartsEmpty ==
    (call.op = "Database" /\ call.in.state # "json") =>
        /\ call.out.kind = "return"
        /\ db = DefaultDb

\* C30: when the write of the ledger file fails at the end of a bridge call,
\* the append returns False without raising, and bridge returns the outcome
\* of the confirmation of its transaction.
C30_WriteFailureDoesNotBlock ==
    (pc = "returned" /\ "record" \in done /\ file # FileOf(db)) =>
        /\ ~saved
        /\ exc = NONE
        /\ retval = success

\* A confirmed transaction whose record could not be written: json.dump
\* failed, the record is in memory only and bridge returned True.
C30_Witness ==
    /\ pc = "returned"
    /\ "record" \in done
    /\ db.shape = "ok"
    /\ Len(db.transactions[Wallet]) = calls
    /\ file = CorruptFile
    /\ ~saved
    /\ success
    /\ retval = TRUE

(***************************************************************************)
(* Claims: the wallets of bridge_eth, the ledger's frame                    *)
(***************************************************************************)

\* The awaited calls among the first n entries of ops that have started and
\* not returned.
InFlight(n) ==
    Cardinality({i \in 1..n : ops[i].at = "call"})
    - Cardinality({i \in 1..n : ops[i].at = "return"
                                /\ ops[i].op \notin {"send_transaction", "add_transaction"}})

\* Wallet w's bridge call has started and not returned after the first n
\* entries of ops.
Bridging(w, n) ==
    /\ \E i \in 1..n : ops[i] = Op(w, "bridge", "call", PyNone)
    /\ \A i \in 1..n : ~(ops[i].wallet = w /\ ops[i].op = "bridge" /\ ops[i].at = "return")

\* C31: bridge_eth processes the wallets strictly one after the other and in
\* input order: at most one awaited call (balance read, bridge attempt,
\* pause) is in flight at any time, the submission and the ledger record of
\* a wallet lie within its bridge attempt, which follows its balance read,
\* and when the first operation of the next wallet starts nothing of the
\* wallet before it is in flight.  The ledger holds one record per attempt.
C31_WalletsInSequence ==
    /\ \A n \in 1..Len(ops) :
        /\ InFlight(n) \in {0, 1}
        /\ ops[n].op \in {"send_transaction", "add_transaction"} =>
               Bridging(ops[n].wallet, n)
        /\ ops[n] = Op(ops[n].wallet, "bridge", "call", PyNone) =>
               /\ n > 1
               /\ ops[n - 1].wallet = ops[n].wallet
               /\ ops[n - 1].op = "get_native_balance" /\ ops[n - 1].at = "return"
        /\ ops[n].op = "bridge" /\ ops[n].at = "return" =>
               /\ n > 1
               /\ ops[n - 1].wallet = ops[n].wallet /\ ops[n - 1].op = "add_transaction"
        /\ n > 1 /\ ops[n].wallet # ops[n - 1].wallet =>
               /\ ops[n].wallet = ops[n - 1].wallet + 1
               /\ InFlight(n - 1) = 0
               /\ ops[n] = Op(ops[n].wallet, "get_native_balance", "call", PyNone)
    /\ appends = Cardinality({n \in 1..Len(ops) : ops[n].op = "add_transaction"})
    /\ calls = Cardinality({n \in 1..Len(ops) : ops[n].op = "bridge" /\ ops[n].at = "call"})
    /\ calls - appends \in {0, 1}

\* bridge_eth has returned after two wallets, both bridged, the first with a
\* submission, and a pause between them.
C31_Witness ==
    /\ auPc = "returned" /\ sleeps = 1
    /\ \E i, j, k \in 1..Len(ops) :
        /\ i < j /\ j < k
        /\ ops[i] = Op(0, "send_transaction", "return", PyNone)
        /\ ops[j] = Op(0, "bridge", "return", PyBool(TRUE))
        /\ ops[k].wallet = 1 /\ ops[k].op = "bridge" /\ ops[k].at = "return"

\* The balance read that returned as entry n of ops gave no viable balance:
\* False after the last attempt, or at most 0.001 ether.
NoViableBalance(n) ==
    /\ ops[n].op = "get_native_balance" /\ ops[n].at = "return"
    /\ \/ ops[n].result = PyBool(FALSE)
       \/ ops[n].result.type = "float" /\ ops[n].result.ether_of_wei <= MIN_VIABLE_BALANCE

\* C37: a wallet whose balance read failed on every attempt or gave at most
\* 0.001 ether is skipped: the balance read is the only operation of that
\* wallet (no bridge attempt, no submission, no ledger record, no pause), its
\* address has no record in the ledger, and the next thing bridge_eth does is
\* the balance read of the next wallet, or its return after the last one.
C37_NoViableBalanceSkips ==
    \A n \in 1..Len(ops) :
        NoViableBalance(n) =>
            /\ \A m \in 1..Len(ops) :
                   ops[m].wallet = ops[n].wallet => ops[m].op = "get_native_balance"
            /\ db.transactions[address(keys_txt.lines[ops[n].wallet + 1])] = <<>>
            /\ n < Len(ops) =>
                   ops[n + 1] = Op(ops[n].wallet + 1, "get_native_balance", "call", PyNone)
            /\ n = Len(ops) =>
                   /\ idx = ops[n].wallet + 1
                   /\ auPc \in {"wallet", "returned", "raised"}

\* With a pause asked for between the wallets: the first wallet's balance
\* read failed for good, the second wallet holds exactly 0.001 ether, and
\* bridge_eth has returned without a bridge call, a record or a pause.
C37_Witness ==
    /\ auPc = "returned" /\ args.delay_after
    /\ Len(ops) = 4
    /\ ops[2] = Op(0, "get_native_balance", "return", PyBool(FALSE))
    /\ ops[4] = Op(1, "get_native_balance", "return", PyEther(MIN_VIABLE_BALANCE))
    /\ calls = 0 /\ appends = 0 /\ sleeps = 0 /\ sent = 0

\* C38: a balance of 0 is no failure for the retry wrapper: when the node
\* answers 0, get_native_balance returns 0 (in wei or in ether) after one
\* attempt, without a retry and without a sleep.
C38_ZeroBalanceIsNoFailure ==
    (call.op = "get_native_balance" /\ call.in.fails = 0 /\ call.in.balance = 0) =>
        /\ call.out.kind = "return"
        /\ call.out.value = (IF call.in.wei THEN PyInt(0) ELSE PyEther(0))
        /\ call.out.calls = 1
        /\ call.out.slept = <<>>

\* The node answers 0 to the first query, the caller asked for ether.
C38_Witness ==
    /\ call.op = "get_native_balance"
    /\ call.in.fails = 0 /\ call.in.balance = 0 /\ ~call.in.wei
    /\ call.out.value = PyEther(0)
    /\ call.out.calls = 1

\* C33: a bridge call submits at most one transaction: send_transaction is
\* called at most once, also after it gave no hash and after a confirmation
\* that failed.
C33_AtMostOneSubmission ==
    /\ sent <= 1
    /\ ("send" \in done /\ pc # "send") => pc \notin {"gas_estimate", "tx_params", "quote"}
    /\ (pc = "returned" /\ "verify" \in done /\ ~success) => sent = 1

\* The transaction went out and its confirmation failed; bridge returned
\* False with that one submission.
C33_Witness ==
    /\ pc = "returned"
    /\ "verify" \in done
    /\ tx_hash # NONE
    /\ ~success
    /\ sent = 1
    /\ retval = FALSE

\* The record of the last bridge call of SpecValues, as the ledger holds it.
LastRecord == db.transactions[Wallet][Len(db.transactions[Wallet])]

\* C34: bridge returns True exactly when the record it appended has success =
\* true; a record with success = true has a tx_hash; a record written by the
\* exception path has success = false and an error message.
C34_ResultMatchesRecord ==
    call.op = "bridge" =>
        /\ db.transactions[Wallet] # <<>>
        /\ LastRecord = call.out.record
        /\ call.out.value = LastRecord.success
        /\ LastRecord.success => LastRecord.tx_hash # NONE
        /\ LastRecord.gas_fee = Nothing =>
               (~LastRecord.success /\ LastRecord.error # NONE /\ ~call.out.value)

\* A confirmed bridge and its record.
C34_Witness ==
    /\ call.op = "bridge"
    /\ call.out.value = TRUE
    /\ LastRecord.success
    /\ LastRecord.tx_hash = TxHash
    /\ LastRecord.error = NONE

\* C35 (its ether half): in a record of the path without an exception the
\* total fee is the recorded gas fee plus the recorded bridge fee, also when
\* the fetch of the receipt failed after a confirmed transaction.
C35_TotalIsGasPlusBridgeFee ==
    (call.op = "bridge" /\ call.out.record.error = NONE) =>
        call.out.record.total_fee =
            Some(call.out.record.gas_fee[1] + call.out.record.message_fee_wei[1])

\* What the estimate of a bridge call has left after the fees.
LeftAfterFees(env) ==
    (IF env.amount = Nothing
     THEN (IF env.balance = "ok" THEN Balance ELSE 0)
     ELSE env.amount[1])
    - MessageFee - env.est_gas[1].gas * GasPrice

\* C36: when the estimate is made and the amount left after the fees is
\* negative (the balance could not be read), bridge submits nothing, appends
\* a failed record and returns False.
C36_NegativeAmountFails ==
    (/\ call.op = "bridge"
     /\ call.in.amount = Nothing \/ call.in.include_fees
     /\ call.in.fail \notin {"gas_price", "est_quote", "est_params", "est_gas", "est_price"}
     /\ LeftAfterFees(call.in) < 0) =>
        /\ call.out.sent = <<>>
        /\ call.out.quoted = <<>>
        /\ call.out.value = FALSE
        /\ Len(db.transactions[Wallet]) = 1
        /\ ~LastRecord.success
        /\ LastRecord.error = EstimateError

\* A full-balance bridge of a wallet whose balance read gave False.
C36_Witness ==
    /\ call.op = "bridge"
    /\ call.in.amount = Nothing
    /\ call.in.fail = "none"
    /\ call.in.balance = "false"
    /\ LeftAfterFees(call.in) < 0
    /\ call.out.value = FALSE
    /\ LastRecord.error = EstimateError

\* C39: after an append that returned True the ledger file holds the whole
\* in-memory store, the records of earlier appends whose save failed
\* included: the file is written anew from the store each time.
C39_SaveRepairsFile ==
    (call.op = "add_transaction" /\ call.out = Return(TRUE)) =>
        /\ file = FileOf(db)
        /\ \A w \in Wallets :
               json_load(file.text).transactions[w] = db.transactions[w]
        /\ json_load(file.text).total_transactions = appends

\* Three appends of records with amounts for one wallet; the file the third
\* found held the first record only (the save of the second had failed), and
\* holds all three after it.
C39_Witness ==
    /\ call.op = "add_transaction" /\ call.out = Return(TRUE)
    /\ appends = 3
    /\ Len(db.transactions[Wallet]) = 3
    /\ \A i \in 1..3 : /\ "amount" \in DOMAIN db.transactions[Wallet][i]
                       /\ db.transactions[Wallet][i].amount # Nothing
    /\ call.in.file.state = "json"
    /\ Len(json_load(call.in.file.text).transactions[Wallet]) = 1
    /\ Len(json_load(file.text).transactions[Wallet]) = 3

\* C32: the ledger is append-only: an append adds its record at the end of
\* the wallet's list and leaves the stored records as they were; a query and
\* the display of the history leave every wallet's list as it was, in the
\* same order.
C32_AppendOnly ==
    /\ call.op = "add_transaction" =>
           \A w \in Wallets :
               db.transactions[w] =
                   IF w = call.in.wallet
                   THEN Append(call.in.before.transactions[w],
                               db.transactions[w][Len(db.transactions[w])])
                   ELSE call.in.before.transactions[w]
    /\ call.op \in {"get_wallet_transactions", "show_tx_history"} =>
           db.transactions = call.in.before.transactions

\* C40: whatever the ledger file held at startup, the store has its
\* transactions mapping and its stats counters, so that the append at the end
\* of a bridge call records the attempt: the record is in the wallet's list
\* and counted.
C40_StoreHasStructure ==
    pc = "returned" =>
        /\ db.shape = "ok"
        /\ Len(db.transactions[Wallet]) = calls
        /\ db.total_transactions = calls

====
